---- MODULE Spec2Model ----
(***************************************************************************)
(* Model of snag's vision dispatcher (src/snag/vision.py) and of the MCP   *)
(* stdio client it drives for the zai provider (src/snag/mcp_client.py).   *)
(*                                                                         *)
(* One behaviour is one call of describe_image(image, model, provider,     *)
(* max_retries).  The environment (HTTP server, spawned subprocesses, the  *)
(* file system) answers nondeterministically; what the call did is kept    *)
(* in history variables (log, resps, procs, files).                        *)
(***************************************************************************)
EXTENDS Integers, Sequences, FiniteSets, TLC

(***************************************************************************)
(* Bounds of the model.                                                    *)
(***************************************************************************)
\* largest max_retries argument explored (src/snag/main.py:416 uses the default 3)
MaxRetries == 3

\* bound of the model: the number of method calls a caller makes on one
\* MCPClient
MaxCalls == 3

\* bound of the model: the number of input events of one overlay session
MaxEvents == 3

RetryArgs == 0 .. MaxRetries

(***************************************************************************)
(* Inputs.                                                                 *)
(***************************************************************************)
\* src/snag/config.py:23-32
GOOGLE_MODELS == {"gemini-2.5-flash", "gemini-3-flash-preview"}

\* model names passed by callers: the two Google models and one that is not
Models == GOOGLE_MODELS \cup {"glm-4.6v"}

\* provider tags passed by callers; "bogus" stands for any unknown tag
Providers == {"google", "openrouter", "zai", "bogus"}

\* os.environ.get(VAR): None, the empty string, or a key
EnvValues == {"<unset>", "", "sk-key"}

(***************************************************************************)
(* Exceptions.  type is the Python class, msg the message template, code   *)
(* and detail the values formatted into it.                                *)
(***************************************************************************)
Exc(type, msg, code, detail) ==
    [type |-> type, msg |-> msg, code |-> code, detail |-> detail]

None == Exc("None", "", 0, "")

VisionError(msg) == Exc("VisionError", msg, 0, "")

(***************************************************************************)
(* HTTP responses.  A body is its raw text together with what json() and   *)
(* the subscripts of the handlers find in it.                              *)
(*   parse   : "invalid" (json() raises), "object", "array"                *)
(*   error   : the "error" member: "absent", "dict", "string"              *)
(*   message : error["message"], "" when absent                            *)
(*   shape   : what the 200 handler's subscript chain meets:                *)
(*             "text" (a string is there), "missing" (KeyError or          *)
(*             IndexError), "wrongtype" (TypeError)                        *)
(***************************************************************************)
Body(raw, parse, error, message, shape, text) ==
    [raw |-> raw, parse |-> parse, error |-> error, message |-> message,
     shape |-> shape, text |-> text]

B_OK        == Body("{text}", "object", "absent", "", "text", "# markdown")
B_EMPTY     == Body("{}", "object", "absent", "", "missing", "")
B_ARRAY     == Body("[]", "array", "absent", "", "wrongtype", "")
B_HTML      == Body("<html>", "invalid", "absent", "", "missing", "")
B_ERR_MSG   == Body("{error:{message}}", "object", "dict", "quota exceeded", "missing", "")
B_ERR_NOMSG == Body("{error:{}}", "object", "dict", "", "missing", "")
B_ERR_STR   == Body("{error:str}", "object", "string", "", "missing", "")

Bodies == {B_OK, B_EMPTY, B_ARRAY, B_HTML, B_ERR_MSG, B_ERR_NOMSG, B_ERR_STR}

Statuses == {200, 429, 500}

NoBody == Body("", "invalid", "absent", "", "missing", "")

\* what requests.post does: raise Timeout, raise another RequestException,
\* or return a response (a 429's body is never read: one body stands for all)
PostOutcomes ==
    {[kind |-> "timeout", status |-> 0, body |-> NoBody],
     [kind |-> "neterr", status |-> 0, body |-> NoBody]}
    \cup {r \in [kind : {"response"}, status : Statuses, body : Bodies] :
            r.status = 429 => r.body = B_ERR_MSG}

(***************************************************************************)
(* MCP stdio client (src/snag/mcp_client.py).                              *)
(*   process    : _process, an index into procs, 0 for None                *)
(*   request_id : _request_id                                              *)
(*   wire       : history of the lines written to a process's stdin, each  *)
(*                with the process it was written to                       *)
(*   signals    : history of terminate() and kill() calls                  *)
(*   line       : what the reader thread of the last _recv met             *)
(***************************************************************************)
MCPError(msg, detail) == Exc("MCPError", msg, 0, detail)

\* an item of the content list of a tools/call result: a JSON object with
\* its "type" and "text" members (Absent: no such member), or a JSON value
\* that is no object
Absent == "<absent>"

Part(type, text) == [json |-> "object", type |-> type, text |-> text]

NonObject == [json |-> "string", type |-> Absent, text |-> Absent]

(***************************************************************************)
(* What json.loads gives for a line read from the server.                  *)
(*   json    : "object", "array", "number"                                 *)
(*   error   : the "error" member: "absent", "dict", "string"              *)
(*   errmsg  : error["message"] or str(error)                              *)
(*   res     : the "result" member: "absent", "dict", "string"             *)
(*   content : result["content"]: "absent", "list", "str", "number"        *)
(*   parts   : the list's items; text: the string content                  *)
(***************************************************************************)
Msg(json, error, errmsg, res, content, parts, text) ==
    [json |-> json, error |-> error, errmsg |-> errmsg, res |-> res,
     content |-> content, parts |-> parts, text |-> text]

M_EMPTY     == Msg("object", "absent", "", "dict", "absent", <<>>, "")
M_PARTS     == Msg("object", "absent", "", "dict", "list",
                   <<Part("text", "line 1"), Part("image", "png"), Part("text", "line 2")>>, "")
M_NOTEXT    == Msg("object", "absent", "", "dict", "list",
                   <<Part("image", "png"), NonObject, Part(Absent, "stray")>>, "")
M_MIXED     == Msg("object", "absent", "", "dict", "list",
                   <<NonObject, Part("text", "b"), Part("text", Absent), Part("text", "a")>>, "")
M_NOPARTS   == Msg("object", "absent", "", "dict", "list", <<>>, "")
M_STR       == Msg("object", "absent", "", "dict", "str", <<>>, "plain")
M_NUM       == Msg("object", "absent", "", "dict", "number", <<>>, "")
M_RES_STR   == Msg("object", "absent", "", "string", "absent", <<>>, "")
M_ERR_DICT  == Msg("object", "dict", "tool failed", "absent", "absent", <<>>, "")
M_ERR_STR   == Msg("object", "string", "boom", "absent", "absent", <<>>, "")
M_ARRAY     == Msg("array", "absent", "", "absent", "absent", <<>>, "")
M_NUMBER    == Msg("number", "absent", "", "absent", "absent", <<>>, "")

Messages ==
    {M_EMPTY, M_PARTS, M_NOTEXT, M_MIXED, M_NOPARTS, M_STR, M_NUM, M_RES_STR,
     M_ERR_DICT, M_ERR_STR, M_ARRAY, M_NUMBER}

\* the "id" member a JSON object written by the server may carry while
\* client c waits: none (0, a notification), the id of the request before
\* the one c has just sent, or the id of that request
ResponseIds(c) == {i \in {0, c.request_id - 1, c.request_id} : i >= 0}

\* what the reader thread of _recv meets: no line within the timeout, end of
\* file, a line that is not JSON, a failing read, or a JSON line
Lines(c) ==
    [kind : {"timeout", "eof", "invalid_json", "read_error"}, msg : {M_EMPTY}, id : {0}]
    \cup [kind : {"json"}, msg : {M_ARRAY, M_NUMBER}, id : {0}]
    \cup [kind : {"json"}, msg : Messages \ {M_ARRAY, M_NUMBER}, id : ResponseIds(c)]

\* no _recv yet
NoLine == [kind |-> "none", msg |-> M_EMPTY, id |-> 0]

\* MCPClient.__init__
MCPClient ==
    [process |-> 0, request_id |-> 0, wire |-> <<>>, signals |-> <<>>,
     line |-> NoLine]

NoClient == MCPClient

\* _kill_process, the process table after it: terminate(), wait(5), else kill()
KilledProcs(c, ps) ==
    IF c.process = 0 THEN ps
    ELSE [ps EXCEPT ![c.process] = "exited"]

\* mutant of KilledClient: the handle is not cleared
KeepsHandle(c, ps, graceful) ==
    IF c.process = 0 THEN c
    ELSE [c EXCEPT !.signals = @ \o (IF graceful \/ ps[c.process] # "running"
                                     THEN <<"terminate">>
                                     ELSE <<"terminate", "kill">>)]

\* mutant of KilledClient: no `if self._process` around the signals
KillsUnguarded(c, ps, graceful) ==
    [c EXCEPT !.process = 0, !.signals = @ \o <<"terminate">>]

\* _kill_process, the client after it; graceful: wait(5) returned in time
KilledClient(c, ps, graceful) ==
    IF c.process = 0 THEN c
    ELSE [c EXCEPT !.process = 0,
                   !.signals = @ \o (IF graceful \/ ps[c.process] # "running"
                                     THEN <<"terminate">>
                                     ELSE <<"terminate", "kill">>)]

\* _send's guard: `not self._process or not self._process.stdin`
NotConnected(c) == c.process = 0

\* _next_id
NextId(c) == [c EXCEPT !.request_id = @ + 1]

\* the request of _send_request written by _send
Sent(c, method) ==
    [c EXCEPT !.wire = Append(@, [method |-> method, id |-> c.request_id,
                                  to |-> c.process])]

\* the notification of _send_notification written by _send: it carries no id
Notified(c, method) ==
    [c EXCEPT !.wire = Append(@, [method |-> method, id |-> 0, to |-> c.process])]

\* _recv followed by the rest of _send_request: the exception raised, or None
RequestError(line) ==
    IF line.kind = "timeout" THEN MCPError("MCP server did not respond within", "")
    ELSE IF line.kind = "eof" THEN MCPError("MCP server closed connection", "")
    ELSE IF line.kind = "invalid_json" THEN MCPError("Invalid JSON from MCP server", "")
    ELSE IF line.kind = "read_error" THEN MCPError("Read error", "")
    ELSE IF line.msg.json = "number" THEN Exc("TypeError", "not iterable", 0, "")
    ELSE IF line.msg.json = "array" THEN Exc("AttributeError", "no attribute get", 0, "")
    ELSE IF line.msg.error # "absent" THEN MCPError("MCP error", line.msg.errmsg)
    ELSE None

\* "\n".join(texts), as the lines of the joined string
Join(texts) == IF texts = <<>> THEN <<"">> ELSE texts

\* item.get("text", "")
TextOf(item) == IF item.text = Absent THEN "" ELSE item.text

\* mutant of IsTextPart: the type of the part is not looked at
AnyObjectPart(item) == item.json = "object"

\* isinstance(item, dict) and item.get("type") == "text"
IsTextPart(item) == item.json = "object" /\ item.type = "text"

\* the texts call_tool collects from a content list
RECURSIVE Texts(_)
Texts(parts) ==
    IF parts = <<>> THEN <<>>
    ELSE (IF IsTextPart(Head(parts)) THEN <<TextOf(Head(parts))>> ELSE <<>>)
         \o Texts(Tail(parts))

\* call_tool's extraction from the result of _send_request:
\* [err |-> exception or None, text |-> the returned string's lines]
Extract(m) ==
    IF m.res = "string"
    THEN [err |-> Exc("AttributeError", "no attribute get", 0, ""), text |-> <<>>]
    ELSE IF m.res = "absent" \/ m.content = "absent"
    THEN [err |-> None, text |-> Join(<<>>)]
    ELSE IF m.content = "list" THEN [err |-> None, text |-> Join(Texts(m.parts))]
    ELSE IF m.content = "str" THEN [err |-> None, text |-> <<m.text>>]
    ELSE [err |-> None, text |-> <<"str(result)">>]

(***************************************************************************)
(* `node --version` (_check_node_version).  stdout is a string of          *)
(* characters.                                                             *)
(***************************************************************************)
Digits == {"0", "1", "2", "3", "4", "5", "6", "7", "8", "9"}

DigitVal(ch) ==
    CASE ch = "0" -> 0 [] ch = "1" -> 1 [] ch = "2" -> 2 [] ch = "3" -> 3
      [] ch = "4" -> 4 [] ch = "5" -> 5 [] ch = "6" -> 6 [] ch = "7" -> 7
      [] ch = "8" -> 8 [] ch = "9" -> 9

\* str.strip(): whitespace removed at both ends
RECURSIVE Strip(_)
Strip(str) ==
    IF str = <<>> THEN str
    ELSE IF Head(str) \in {" ", "\n"} THEN Strip(Tail(str))
    ELSE IF str[Len(str)] \in {" ", "\n"} THEN Strip(SubSeq(str, 1, Len(str) - 1))
    ELSE str

\* int() of the longest run of digits at the head of str, acc so far
RECURSIVE DigitRun(_, _)
DigitRun(str, acc) ==
    IF str # <<>> /\ Head(str) \in Digits
    THEN DigitRun(Tail(str), 10 * acc + DigitVal(Head(str)))
    ELSE acc

\* re.match(r"v(\d+)", s): the major version, -1 when there is no match
MajorVersion(str) ==
    IF Len(str) >= 2 /\ str[1] = "v" /\ str[2] \in Digits
    THEN DigitRun(Tail(str), 0)
    ELSE -1

MinNodeMajor == 22

V22 == <<"v", "2", "2", ".", "1", ".", "0", "\n">>
V18 == <<"v", "1", "8", ".", "1", "9", "\n">>
V100 == <<"v", "1", "0", "0", ".", "0", "\n">>
VBare == <<"2", "2", ".", "1", "\n">>
VEmpty == <<>>

\* what subprocess.run(["node", "--version"]) does
NodeRuns ==
    [kind : {"FileNotFoundError", "TimeoutExpired"}, rc : {0}, stdout : {VEmpty}]
    \cup [kind : {"completed"}, rc : {0, 1}, stdout : {V22, V18, V100, VBare, VEmpty}]

\* mutant of NodeOk: the exit status of `node --version` is not looked at
NodeOkAnyExit(run) ==
    /\ run.kind = "completed"
    /\ MajorVersion(Strip(run.stdout)) >= MinNodeMajor

\* _check_node_version: node_ok
NodeOk(run) ==
    /\ run.kind = "completed"
    /\ run.rc = 0
    /\ MajorVersion(Strip(run.stdout)) >= MinNodeMajor

VARIABLES
    pc,               \* position in the code that runs
    provider,         \* argument provider
    model,            \* argument model
    max_retries,      \* argument max_retries
    key,              \* os.environ value of the provider's credential variable
    attempt,          \* loop variable of the retry loops
    last_error,       \* local last_error of the retry loops
    result,           \* returned text as its lines, <<>> until the call returns
    raised,           \* exception leaving the call, None until it raises
    log,              \* history, in order: "post", "sleep", "spawn", "getenv", "node",
                      \* and the method calls made on an MCPClient
    resps,            \* history: outcome of each requests.post, in order
    json_error_base,  \* whether response.json()'s error is a RequestException
    exc,              \* exception in flight inside the call, else None
    ret,              \* value call_tool returned, held while the handlers unwind
    procs,            \* history: every MCP server process spawned, with its status
    files,            \* history: every temp file created, with its status
    temp_path,        \* local temp_path: index into files, 0 before it is bound
    client,           \* the MCPClient of the current `with` statement
    monitor,          \* _capture_with_overlay: sct.monitors[0], left and top
    selection,        \* _capture_with_overlay: the dict selection
    rect,             \* canvas coordinates of rect_border/rect_inner, <<>> for None
    root,             \* the Tk window: "none", "mainloop", "quit", "destroyed"
    kb_listener,      \* the pynput listener: "none", "running", "stopped"
    after,            \* cancel callbacks scheduled with root.after and not yet run
    events,           \* history: the input events handled, in order
    image,            \* the image the capture returned, NoImage before
    env_files,        \* the three .env search paths, in order: what each holds
                      \* for the provider's credential variable
    sys_platform,     \* sys.platform
    environ,          \* os.environ: WAYLAND_DISPLAY, XDG_SESSION_TYPE, DISPLAY
    installed,        \* the executables found on PATH
    platform,         \* capture_region: local platform, "none" before it is bound
    region,           \* _capture_wayland: local region, as its characters
    clipboard,        \* history: every text written to the clipboard, in order
    exit_code         \* what main returned, -1 before it returns

vars == <<pc, provider, model, max_retries, key, attempt, last_error, result,
          raised, log, resps, json_error_base, exc, ret, procs, files,
          temp_path, client, monitor, selection, rect, root, kb_listener,
          after, events, image, env_files, sys_platform, environ, installed, platform,
          region, clipboard, exit_code>>

desktop == <<env_files, sys_platform, environ, installed, platform, region, clipboard, exit_code>>

overlay == <<monitor, selection, rect, root, kb_listener, after, events, image>>

(***************************************************************************)
(* _capture_with_overlay (src/snag/capture.py).  A point is <<x, y>>;      *)
(* NoPoint stands for None.                                                *)
(***************************************************************************)
NoPoint == <<>>

NoImage == [of |-> "none", box |-> <<>>, size |-> <<>>]

\* selection = {"start": None, "end": None, "cancelled": True}
NewSelection == [start |-> NoPoint, end |-> NoPoint, cancelled |-> TRUE]

\* no overlay session
NoOverlay ==
    /\ monitor = [left |-> 0, top |-> 0]
    /\ selection = NewSelection
    /\ rect = <<>>
    /\ root = "none"
    /\ kb_listener = "none"
    /\ after = 0
    /\ events = <<>>
    /\ image = NoImage

\* a run outside capture_region and main
NoDesktop ==
    /\ env_files = <<"absent", "absent", "absent">>
    /\ sys_platform = "linux"
    /\ environ = [WAYLAND_DISPLAY |-> "<unset>", XDG_SESSION_TYPE |-> "<unset>", DISPLAY |-> ":0"]
    /\ installed = {}
    /\ platform = "none"
    /\ region = <<>>
    /\ clipboard = <<>>
    /\ exit_code = -1

Ev(ev, n) == [ev |-> ev, n |-> n]

Count(ev) == Cardinality({i \in 1 .. Len(log) : log[i].ev = ev})

Init ==
    /\ pc = "describe_image"
    /\ provider \in Providers
    /\ model \in Models
    /\ max_retries \in RetryArgs
    /\ key \in EnvValues
    /\ attempt = 0
    /\ last_error = None
    /\ result = <<>>
    /\ raised = None
    /\ log = <<>>
    /\ resps = <<>>
    /\ json_error_base = "undecided"
    /\ exc = None
    /\ ret = <<>>
    /\ procs = <<>>
    /\ files = <<>>
    /\ temp_path = 0
    /\ client = NoClient
    /\ NoOverlay
    /\ NoDesktop

inputs == <<provider, model, max_retries, key>>

http == <<resps, json_error_base>>

zai == <<exc, ret, procs, files, temp_path, client>>

Raise(e) ==
    /\ pc' = "raised"
    /\ raised' = e
    /\ result' = result

Return(text) ==
    /\ pc' = "returned"
    /\ result' = text
    /\ raised' = raised

Goto(l) ==
    /\ pc' = l
    /\ result' = result
    /\ raised' = raised

\* mutant of describe_image: an unknown tag falls back to the default provider
describe_image_fallback ==
    /\ pc = "describe_image"
    /\ IF provider = "openrouter" THEN Goto("describe_image_openrouter")
       ELSE IF provider = "zai" THEN Goto("describe_image_zai")
       ELSE Goto("describe_image_google")
    /\ UNCHANGED <<desktop, overlay, inputs, attempt, last_error, log, http, zai>>

(***************************************************************************)
(* describe_image: dispatch on the provider tag.                           *)
(***************************************************************************)
describe_image ==
    /\ pc = "describe_image"
    /\ IF provider = "google" THEN Goto("describe_image_google")
       ELSE IF provider = "openrouter" THEN Goto("describe_image_openrouter")
       ELSE IF provider = "zai" THEN Goto("describe_image_zai")
       ELSE Raise(VisionError("Unknown provider"))
    /\ UNCHANGED <<desktop, overlay, inputs, attempt, last_error, log, http, zai>>

(***************************************************************************)
(* Credential lookup: get_gemini_api_key / get_openrouter_api_key /        *)
(* get_zai_api_key.  `if not key` is true for None and for "".             *)
(***************************************************************************)
\* mutant of KeyMissing: `if key is None`
KeyIsNone(k) == k = "<unset>"

KeyMissing(k) == k = "<unset>" \/ k = ""

get_api_key(var, next) ==
    /\ log' = Append(log, Ev("getenv", 0))
    /\ IF KeyMissing(key)
       THEN Raise(VisionError(var))
       ELSE Goto(next)

(***************************************************************************)
(* The head of describe_image_google: model check, then credential.        *)
(***************************************************************************)
\* mutant of KnownGoogleModel: the model is not validated
AnyGoogleModel(m) == TRUE

\* `model not in GOOGLE_MODELS`, negated
KnownGoogleModel(m) == m \in GOOGLE_MODELS

describe_image_google ==
    /\ pc = "describe_image_google"
    /\ IF ~KnownGoogleModel(model)
       THEN /\ Raise(VisionError("Unknown Google model"))
            /\ log' = log
       ELSE get_api_key("GEMINI_API_KEY not found", "google_loop")
    /\ UNCHANGED <<desktop, overlay, inputs, attempt, last_error, http, zai>>

describe_image_openrouter ==
    /\ pc = "describe_image_openrouter"
    /\ get_api_key("OPENROUTER_API_KEY not found", "openrouter_loop")
    /\ UNCHANGED <<desktop, overlay, inputs, attempt, last_error, http, zai>>

(***************************************************************************)
(* One iteration of the HTTP retry loop.                                   *)
(***************************************************************************)
\* mutant of WaitTime: linear backoff, wait_time = 2 * attempt
WaitTimeLinear(a) == 2 * a

\* wait_time = 2 ** attempt
WaitTime(a) == 2 ^ a

\* mutant of ErrorMsg: the body is never parsed
ErrorMsgRaw(body) == body.raw

\* the message of the non-200, non-429 branch
ErrorMsg(body) ==
    IF body.parse = "invalid" THEN body.raw                 \* json() raises, pass
    ELSE IF body.parse = "array" \/ body.error = "absent" THEN body.raw
    ELSE IF body.error = "string" THEN body.raw             \* .get raises, pass
    ELSE IF body.message = "" THEN body.raw                 \* .get's default
    ELSE body.message

\* the outcomes a build can give a 200 whose body is not JSON
JsonErrorBases == {"RequestException", "ValueError"}

\* the 200 branch calls response.json() on a body that is not JSON
JsonFails(r) == r.kind = "response" /\ r.status = 200 /\ r.body.parse = "invalid"

\* what one iteration does with the outcome r of requests.post, json() failing
\* with an exception of base class jb:
\*   [do |-> "return", ...], [do |-> "raise", ...] or [do |-> "retry", ...]
Step(do, text, err) == [do |-> do, text |-> text, err |-> err]

HandlePost(r, jb) ==
    IF r.kind = "timeout" THEN Step("retry", <<>>, VisionError("Request timed out"))
    ELSE IF r.kind = "neterr" THEN Step("retry", <<>>, VisionError("Network error"))
    ELSE IF r.status = 200 THEN
        IF r.body.parse = "invalid" THEN
            IF jb = "RequestException"
            THEN Step("retry", <<>>, VisionError("Network error"))
            ELSE Step("raise", <<>>, Exc("ValueError", "JSONDecodeError", 0, ""))
        ELSE IF r.body.shape = "text" THEN Step("return", <<r.body.text>>, None)
        ELSE IF r.body.shape = "missing"
            THEN Step("raise", <<>>, VisionError("Unexpected API response format"))
        ELSE Step("raise", <<>>, Exc("TypeError", "not subscriptable", 0, ""))
    ELSE IF r.status = 429
        THEN Step("retry", <<>>, VisionError("Rate limited (429), retrying..."))
    ELSE Step("raise", <<>>, Exc("VisionError", "API error", r.status, ErrorMsg(r.body)))

\* the events one iteration adds to the log
AttemptLog(a, s) ==
    IF s.do = "retry"
    THEN <<Ev("post", a), Ev("sleep", WaitTime(a))>>
    ELSE <<Ev("post", a)>>

\* mutant of LastError: the first failure is kept
KeepFirstError(old, err) == IF old = None THEN err ELSE old

\* last_error = VisionError(...): the new value of last_error after a failure
LastError(old, err) == err

HttpAttempt(loop) ==
    /\ pc = loop
    /\ attempt < max_retries
    /\ \E r \in PostOutcomes, jb \in JsonErrorBases :
         /\ IF JsonFails(r)
            THEN json_error_base \in {"undecided", jb} /\ json_error_base' = jb
            ELSE jb = "RequestException" /\ json_error_base' = json_error_base
         /\ resps' = Append(resps, r)
         /\ LET s == HandlePost(r, jb) IN
              /\ log' = log \o AttemptLog(attempt, s)
              /\ IF s.do = "return" THEN Return(s.text) /\ UNCHANGED <<attempt, last_error>>
                 ELSE IF s.do = "raise" THEN Raise(s.err) /\ UNCHANGED <<attempt, last_error>>
                 ELSE /\ Goto(loop)
                      /\ attempt' = attempt + 1
                      /\ last_error' = LastError(last_error, s.err)
    /\ UNCHANGED <<desktop, overlay, inputs, zai>>

\* raise last_error or VisionError("Failed after retries")
HttpExhausted(loop) ==
    /\ pc = loop
    /\ ~(attempt < max_retries)
    /\ Raise(IF last_error # None THEN last_error
             ELSE VisionError("Failed after retries"))
    /\ UNCHANGED <<desktop, overlay, inputs, attempt, last_error, log, http, zai>>

google_attempt == HttpAttempt("google_loop")

google_exhausted == HttpExhausted("google_loop")

openrouter_attempt == HttpAttempt("openrouter_loop")

openrouter_exhausted == HttpExhausted("openrouter_loop")

(***************************************************************************)
(* describe_image_zai.                                                     *)
(***************************************************************************)
\* the head: _check_node_version(), then the raise when it is unmet.  The
\* log entry tells whether a `node` process ran (1) or none was found (0),
\* and what the run gave.
describe_image_zai ==
    /\ pc = "describe_image_zai"
    /\ \E run \in NodeRuns :
         /\ log' = Append(log, [ev |-> "node",
                                n |-> IF run.kind = "FileNotFoundError" THEN 0 ELSE 1,
                                run |-> run])
         /\ IF NodeOk(run)
            THEN Goto("zai_key")
            ELSE Raise(VisionError("Z.AI provider requires Node.js v22.0.0 or later"))
    /\ UNCHANGED <<desktop, overlay, inputs, attempt, last_error, http, zai>>

zai_key ==
    /\ pc = "zai_key"
    /\ get_api_key("Z_AI_API_KEY not found", "zai_loop")
    /\ UNCHANGED <<desktop, overlay, inputs, attempt, last_error, http, zai>>

\* mutant of zai_loop: the body runs once before max_retries is looked at
zai_loop_once_at_least ==
    /\ pc = "zai_loop"
    /\ (attempt < max_retries \/ attempt = 0)
    /\ client' = MCPClient
    /\ Goto("connect")
    /\ UNCHANGED <<desktop, overlay, inputs, attempt, last_error, log, http, exc, ret, procs, files, temp_path>>

\* for attempt in range(max_retries): MCPClient(command, env, timeout=120)
zai_loop ==
    /\ pc = "zai_loop"
    /\ attempt < max_retries
    /\ client' = MCPClient
    /\ Goto("connect")
    /\ UNCHANGED <<desktop, overlay, inputs, attempt, last_error, log, http, exc, ret, procs, files, temp_path>>

\* raise last_error or VisionError("Z.AI failed after retries")
zai_exhausted ==
    /\ pc = "zai_loop"
    /\ ~(attempt < max_retries)
    /\ Raise(IF last_error # None THEN last_error
             ELSE VisionError("Z.AI failed after retries"))
    /\ UNCHANGED <<desktop, overlay, inputs, attempt, last_error, log, http, zai>>

\* mutant of Popen: a new connection starts the request ids again
PopenResetsId(at, next, onerror) ==
    /\ pc = at
    /\ \E ok \in BOOLEAN :
         IF ok
         THEN /\ procs' = Append(procs, "running")
              /\ client' = [client EXCEPT !.process = Len(procs) + 1, !.request_id = 0]
              /\ log' = Append(log, Ev("spawn", attempt))
              /\ exc' = exc
              /\ Goto(next)
         ELSE /\ exc' = MCPError("Failed to start MCP server", "")
              /\ Goto(onerror)
              /\ UNCHANGED <<procs, client, log>>
    /\ UNCHANGED <<desktop, overlay, inputs, attempt, last_error, http, ret, files, temp_path>>

\* connect: subprocess.Popen, a failure of which becomes an MCPError
Popen(at, next, onerror) ==
    /\ pc = at
    /\ \E ok \in BOOLEAN :
         IF ok
         THEN /\ procs' = Append(procs, "running")
              /\ client' = [client EXCEPT !.process = Len(procs) + 1]
              /\ log' = Append(log, Ev("spawn", attempt))
              /\ exc' = exc
              /\ Goto(next)
         ELSE /\ exc' = MCPError("Failed to start MCP server", "")
              /\ Goto(onerror)
              /\ UNCHANGED <<procs, client, log>>
    /\ UNCHANGED <<desktop, overlay, inputs, attempt, last_error, http, ret, files, temp_path>>

\* __enter__ -> connect
connect == Popen("connect", "init_send", "zai_except")

\* mutant of SendRequest: _send without its guard, so that a client without a
\* process fails on `None.stdin`
SendRequestNoGuard(method, next, onerror) ==
    LET c == NextId(client) IN
    IF NotConnected(c)
    THEN /\ client' = c
         /\ exc' = Exc("AttributeError", "NoneType has no attribute stdin", 0, "")
         /\ procs' = procs
         /\ Goto(onerror)
    ELSE /\ procs[c.process] = "running"
         /\ client' = Sent(c, method)
         /\ UNCHANGED <<exc, procs>>
         /\ Goto(next)

\* _send_request up to and including _send.  c is the client after _next_id.
\* The write fails with BrokenPipeError, which _send does not catch, when the
\* server has closed its stdin: it has exited.  Nothing can be written to a
\* process that has exited.
SendRequest(method, next, onerror) ==
    LET c == NextId(client) IN
    IF NotConnected(c)
    THEN /\ client' = c
         /\ exc' = MCPError("MCP server not connected", "")
         /\ procs' = procs
         /\ Goto(onerror)
    ELSE \E wrote \in BOOLEAN :
           IF wrote
           THEN /\ procs[c.process] = "running"
                /\ client' = Sent(c, method)
                /\ UNCHANGED <<exc, procs>>
                /\ Goto(next)
           ELSE /\ client' = c
                /\ procs' = [procs EXCEPT ![c.process] = "exited"]
                /\ exc' = Exc("BrokenPipeError", "Broken pipe", 0, "")
                /\ Goto(onerror)

\* connect: _send_request("initialize") up to the write.  An exception that
\* is not an MCPError passes the handler of connect; __enter__ raised, so
\* __exit__ does not run.
InitSend(at, next, onerror) ==
    /\ pc = at
    /\ SendRequest("initialize", next, onerror)
    /\ UNCHANGED <<desktop, overlay, inputs, attempt, last_error, log, http, ret, files, temp_path>>

init_send == InitSend("init_send", "init_recv", "connect_except")

\* _recv: the reader thread meets `line`.  On end of file the server has
\* closed its stdout: it has exited (st) or still runs; on a timeout _recv
\* runs _kill_process, whose wait(5) returns in time (graceful) or not.
Recv(line, graceful, st) ==
    LET ps == IF line.kind = "eof"
              THEN [procs EXCEPT ![client.process] = st] ELSE procs
        timeout == line.kind = "timeout"
        c == [client EXCEPT !.line = line]
    IN /\ line.kind # "eof" => st = "running"
       /\ ~timeout => graceful
       /\ procs' = IF timeout THEN KilledProcs(c, ps) ELSE ps
       /\ client' = IF timeout THEN KilledClient(c, ps, graceful) ELSE c

\* connect: _recv and the rest of _send_request("initialize"), whose result
\* is dropped
InitRecv(at, next, onerror) ==
    /\ pc = at
    /\ \E line \in Lines(client), graceful \in BOOLEAN, st \in {"running", "exited"} :
         /\ Recv(line, graceful, st)
         /\ IF RequestError(line) = None
            THEN exc' = exc /\ Goto(next)
            ELSE exc' = RequestError(line) /\ Goto(onerror)
    /\ UNCHANGED <<desktop, overlay, inputs, attempt, last_error, log, http, ret, files, temp_path>>

init_recv == InitRecv("init_recv", "init_notify", "connect_except")

\* _send_notification: the message has no id, _send writes it, nothing is
\* read
SendNotification(method, next, onerror) ==
    IF NotConnected(client)
    THEN /\ exc' = MCPError("MCP server not connected", "")
         /\ Goto(onerror)
         /\ UNCHANGED <<client, procs>>
    ELSE \E wrote \in BOOLEAN :
           IF wrote
           THEN /\ procs[client.process] = "running"
                /\ client' = Notified(client, method)
                /\ UNCHANGED <<exc, procs>>
                /\ Goto(next)
           ELSE /\ procs' = [procs EXCEPT ![client.process] = "exited"]
                /\ exc' = Exc("BrokenPipeError", "Broken pipe", 0, "")
                /\ client' = client
                /\ Goto(onerror)

\* connect: _send_notification("notifications/initialized"), after which
\* connect returns
InitNotify(at, next, onerror) ==
    /\ pc = at
    /\ SendNotification("notifications/initialized", next, onerror)
    /\ UNCHANGED <<desktop, overlay, inputs, attempt, last_error, log, http, ret, files, temp_path>>

init_notify == InitNotify("init_notify", "tmpfile", "connect_except")

\* connect: `except MCPError: self._kill_process(); raise`; any other
\* exception leaves connect without it
ConnectExcept(at, next) ==
    /\ pc = at
    /\ \E graceful \in BOOLEAN :
         IF exc.type = "MCPError"
         THEN /\ procs' = KilledProcs(client, procs)
              /\ client' = KilledClient(client, procs, graceful)
         ELSE /\ graceful
              /\ UNCHANGED <<procs, client>>
    /\ Goto(next)
    /\ UNCHANGED <<desktop, overlay, inputs, attempt, last_error, log, http, exc, ret, files, temp_path>>

connect_except == ConnectExcept("connect_except", "zai_except")

\* with tempfile.NamedTemporaryFile(suffix=".png", delete=False) as f:
\*     temp_path = f.name
tmpfile ==
    /\ pc = "tmpfile"
    /\ \E ok \in BOOLEAN :
         IF ok
         THEN /\ files' = Append(files, "exists")
              /\ temp_path' = Len(files) + 1
              /\ exc' = exc
              /\ Goto("save")
         ELSE /\ exc' = Exc("OSError", "cannot create temp file", 0, "")
              /\ Goto("ctx_exit")
              /\ UNCHANGED <<files, temp_path>>
    /\ UNCHANGED <<desktop, overlay, inputs, attempt, last_error, log, http, ret, procs, client>>

\* image.save(temp_path, format="PNG"), inside the NamedTemporaryFile block
\* and before the try whose finally unlinks the file
save ==
    /\ pc = "save"
    /\ \E ok \in BOOLEAN :
         IF ok
         THEN exc' = exc /\ Goto("call_send")
         ELSE exc' = Exc("OSError", "cannot write image", 0, "") /\ Goto("ctx_exit")
    /\ UNCHANGED <<desktop, overlay, inputs, attempt, last_error, log, http, ret, procs, files, temp_path, client>>

\* call_tool: _send_request("tools/call") up to the write
CallSend(at, next, onerror) ==
    /\ pc = at
    /\ SendRequest("tools/call", next, onerror)
    /\ UNCHANGED <<desktop, overlay, inputs, attempt, last_error, log, http, ret, files, temp_path>>

call_send == CallSend("call_send", "call_recv", "finally")

\* call_tool: _recv, the rest of _send_request("tools/call") and the
\* extraction of the text
CallRecv(at, next) ==
    /\ pc = at
    /\ \E line \in Lines(client), graceful \in BOOLEAN, st \in {"running", "exited"} :
         LET e == RequestError(line)
             x == Extract(line.msg)
         IN /\ Recv(line, graceful, st)
            /\ exc' = IF e # None THEN e ELSE x.err
            /\ ret' = IF e # None THEN ret ELSE x.text
            /\ Goto(next)
    /\ UNCHANGED <<desktop, overlay, inputs, attempt, last_error, log, http, files, temp_path>>

call_recv == CallRecv("call_recv", "finally")

\* finally: Path(temp_path).unlink(missing_ok=True)
finally ==
    /\ pc = "finally"
    /\ files' = [files EXCEPT ![temp_path] = "deleted"]
    /\ Goto("ctx_exit")
    /\ UNCHANGED <<desktop, overlay, inputs, attempt, last_error, log, http, exc, ret, procs, temp_path, client>>

\* disconnect -> _kill_process
Disconnect ==
    \E graceful \in BOOLEAN :
      /\ NotConnected(client) => graceful
      /\ procs' = KilledProcs(client, procs)
      /\ client' = KilledClient(client, procs, graceful)

\* __exit__ -> disconnect, then `return result` or the
\* exception goes on to the except clauses
ctx_exit ==
    /\ pc = "ctx_exit"
    /\ Disconnect
    /\ IF exc = None THEN Return(ret) ELSE Goto("zai_except")
    /\ UNCHANGED <<desktop, overlay, inputs, attempt, last_error, log, http, exc, ret, files, temp_path>>

\* the sleep of the except clauses: `if attempt < max_retries - 1`
ZaiSleeps(a, n) == a < n - 1

\* except MCPError / except Exception: last_error, the sleep, continue.
\* The two clauses differ in the prefix of the message; the text of e that
\* follows the prefix is not kept.
zai_except ==
    /\ pc = "zai_except"
    /\ last_error' = VisionError(IF exc.type = "MCPError"
                                 THEN "Z.AI MCP error" ELSE "Z.AI error")
    /\ log' = IF ZaiSleeps(attempt, max_retries)
              THEN Append(log, Ev("sleep", WaitTime(attempt)))
              ELSE log
    /\ attempt' = attempt + 1
    /\ exc' = None
    /\ Goto("zai_loop")
    /\ UNCHANGED <<desktop, overlay, inputs, http, ret, procs, files, temp_path, client>>

Next ==
    \/ describe_image
    \/ describe_image_google
    \/ describe_image_openrouter
    \/ google_attempt
    \/ google_exhausted
    \/ openrouter_attempt
    \/ openrouter_exhausted
    \/ describe_image_zai
    \/ zai_key
    \/ zai_loop
    \/ zai_exhausted
    \/ connect
    \/ init_send
    \/ init_recv
    \/ init_notify
    \/ connect_except
    \/ tmpfile
    \/ save
    \/ call_send
    \/ call_recv
    \/ finally
    \/ ctx_exit
    \/ zai_except

Spec == Init /\ [][Next]_vars

(***************************************************************************)
(* One MCPClient over its lifetime: a caller constructs it and calls       *)
(* connect, call_tool and disconnect in any order, connect only while the  *)
(* client holds no process (the lifecycle's Unconnected).  The log records *)
(* each call; raised and result hold the outcome of the last call that     *)
(* ended.  The variables of describe_image take no part.                   *)
(***************************************************************************)
Methods == {"connect", "call_tool", "disconnect"}

IsCallEv(e) == e.ev \in Methods

\* the method calls made so far, in order
Calls == SelectSeq(log, IsCallEv)

InitClient ==
    /\ pc = "idle"
    /\ provider = "zai"
    /\ model = "glm-4.6v"
    /\ max_retries = 0
    /\ key = "sk-key"
    /\ attempt = 0
    /\ last_error = None
    /\ result = <<>>
    /\ raised = None
    /\ log = <<>>
    /\ resps = <<>>
    /\ json_error_base = "undecided"
    /\ exc = None
    /\ ret = <<>>
    /\ procs = <<>>
    /\ files = <<>>
    /\ temp_path = 0
    /\ client = MCPClient
    /\ NoOverlay
    /\ NoDesktop

\* the caller calls a method of the client
api_call ==
    /\ pc = "idle"
    /\ Len(Calls) < MaxCalls
    /\ \E m \in Methods :
         /\ m = "connect" => NotConnected(client)
         /\ log' = Append(log, Ev(m, Len(Calls) + 1))
         /\ Goto("api_" \o m)
    /\ UNCHANGED <<desktop, overlay, inputs, attempt, last_error, http, zai>>

api_connect == Popen("api_connect", "api_init_send", "api_exit")

api_init_send == InitSend("api_init_send", "api_init_recv", "api_connect_except")

api_init_recv == InitRecv("api_init_recv", "api_init_notify", "api_connect_except")

api_init_notify == InitNotify("api_init_notify", "api_exit", "api_connect_except")

api_connect_except == ConnectExcept("api_connect_except", "api_exit")

api_call_tool == CallSend("api_call_tool", "api_call_recv", "api_exit")

api_call_recv == CallRecv("api_call_recv", "api_exit")

api_disconnect ==
    /\ pc = "api_disconnect"
    /\ Disconnect
    /\ Goto("api_exit")
    /\ UNCHANGED <<desktop, overlay, inputs, attempt, last_error, log, http, exc, ret, files, temp_path>>

\* the call ends: it returns (call_tool: the text) or the exception in
\* flight leaves it
api_exit ==
    /\ pc = "api_exit"
    /\ pc' = "idle"
    /\ raised' = exc
    /\ result' = IF exc = None THEN ret ELSE <<>>
    /\ exc' = None
    /\ ret' = <<>>
    /\ UNCHANGED <<desktop, overlay, inputs, attempt, last_error, log, http, procs, files, temp_path, client>>

NextClient ==
    \/ api_call
    \/ api_connect
    \/ api_init_send
    \/ api_init_recv
    \/ api_init_notify
    \/ api_connect_except
    \/ api_call_tool
    \/ api_call_recv
    \/ api_disconnect
    \/ api_exit

SpecClient == InitClient /\ [][NextClient]_vars

(***************************************************************************)
(* One overlay session: _capture_with_overlay from its call to its return  *)
(* or raise.  The main thread runs the Tk main loop, which handles one     *)
(* event at a time; the pynput listener runs on its own thread.  The       *)
(* variables of describe_image take no part.                               *)
(***************************************************************************)
dispatcher == <<inputs, attempt, last_error, log, http, zai>>

\* the corners (40,40) and (100,100) with the two other corners of their
\* rectangle, a point 5 px from (40,40) in both axes, and points 4 px from
\* it in one axis; canvas coordinates
Points ==
    {<<40, 40>>, <<100, 100>>, <<100, 40>>, <<40, 100>>, <<45, 45>>,
     <<44, 100>>, <<100, 44>>}

\* monitor["left"], monitor["top"]: negative with a monitor left of or above
\* the primary one
Origins == {[left |-> 0, top |-> 0], [left |-> -1920, top |-> -200]}

Keys == {"esc", "q", "x"}

SelectionCancelled == Exc("SelectionCancelled", "", 0, "")

\* event.x_root, event.y_root of an event at canvas point p: the window
\* covers the virtual screen from its origin (root.geometry)
Abs(p) == <<p[1] + monitor.left, p[2] + monitor.top>>

Min(a, b) == IF a <= b THEN a ELSE b

Max(a, b) == IF a >= b THEN a ELSE b

\* the smallest extent of a selection that is not taken for a click
MinExtent == 5

InitOverlay ==
    /\ pc = "_capture_with_overlay"
    /\ provider = "google"
    /\ model = "gemini-2.5-flash"
    /\ max_retries = 0
    /\ key = "sk-key"
    /\ attempt = 0
    /\ last_error = None
    /\ result = <<>>
    /\ raised = None
    /\ log = <<>>
    /\ resps = <<>>
    /\ json_error_base = "undecided"
    /\ exc = None
    /\ ret = <<>>
    /\ procs = <<>>
    /\ files = <<>>
    /\ temp_path = 0
    /\ client = NoClient
    /\ monitor \in Origins
    /\ selection = NewSelection
    /\ rect = <<>>
    /\ root = "none"
    /\ kb_listener = "none"
    /\ after = 0
    /\ events = <<>>
    /\ image = NoImage
    /\ NoDesktop

\* the screenshot, the window, kb_listener.start(), the bindings, and
\* root.mainloop() entered
capture_with_overlay ==
    /\ pc = "_capture_with_overlay"
    /\ root' = "mainloop"
    /\ kb_listener' = "running"
    /\ Goto("mainloop")
    /\ UNCHANGED <<desktop, dispatcher, monitor, selection, rect, after, events, image>>

\* the main loop takes an event of the window
Handles(ev) ==
    /\ pc = "mainloop"
    /\ Len(events) < MaxEvents
    /\ events' = Append(events, ev)

\* root.quit(): root.mainloop() returns when the handler has returned
Quit ==
    /\ root' = "quit"
    /\ Goto("kb_listener_stop")

\* cancel()
Cancel ==
    /\ selection' = [selection EXCEPT !.cancelled = TRUE]
    /\ Quit

on_mouse_press ==
    /\ Handles("press")
    /\ \E p \in Points :
         /\ selection' = [selection EXCEPT !.start = Abs(p), !.cancelled = FALSE]
         /\ rect' = <<p[1], p[2], p[1], p[2]>>
    /\ Goto("mainloop")
    /\ UNCHANGED <<desktop, dispatcher, monitor, root, kb_listener, after, image>>

on_mouse_drag ==
    /\ Handles("drag")
    /\ \E p \in Points :
         rect' = IF selection.start # NoPoint /\ rect # <<>>
                 THEN <<selection.start[1] - monitor.left,
                        selection.start[2] - monitor.top, p[1], p[2]>>
                 ELSE rect
    /\ Goto("mainloop")
    /\ UNCHANGED <<desktop, dispatcher, monitor, selection, root, kb_listener, after, image>>

\* mutant of on_mouse_release: the end point is recorded and the loop goes on
on_mouse_release_no_quit ==
    /\ Handles("release")
    /\ \E p \in Points : selection' = [selection EXCEPT !.end = Abs(p)]
    /\ Goto("mainloop")
    /\ UNCHANGED <<desktop, dispatcher, monitor, rect, root, kb_listener, after, image>>

on_mouse_release ==
    /\ Handles("release")
    /\ \E p \in Points : selection' = [selection EXCEPT !.end = Abs(p)]
    /\ Quit
    /\ UNCHANGED <<desktop, dispatcher, monitor, rect, kb_listener, after, image>>

on_right_click ==
    /\ Handles("right_click")
    /\ Cancel
    /\ UNCHANGED <<desktop, dispatcher, monitor, rect, kb_listener, after, image>>

\* the listener thread: Escape and `q` schedule cancel on the main loop and
\* end the listener (return False); root.after fails, which ends the listener
\* too, when the main loop has returned.  Any other key changes nothing.
on_key_press ==
    /\ kb_listener = "running"
    /\ Len(events) < MaxEvents
    /\ \E k \in Keys :
         /\ events' = Append(events, k)
         /\ IF k \in {"esc", "q"}
            THEN /\ kb_listener' = "stopped"
                 /\ after' = IF root = "mainloop" THEN after + 1 ELSE after
            ELSE UNCHANGED <<kb_listener, after>>
    /\ Goto(pc)
    /\ UNCHANGED <<desktop, dispatcher, monitor, selection, rect, root, image>>

\* the main loop runs the callback scheduled with root.after(0, cancel)
after_cancel ==
    /\ pc = "mainloop"
    /\ after > 0
    /\ after' = after - 1
    /\ events' = Append(events, "cancel")
    /\ Cancel
    /\ UNCHANGED <<desktop, dispatcher, monitor, rect, kb_listener, image>>

\* mutant of kb_listener_stop: the window is destroyed with the listener
\* left as it is
kb_listener_left ==
    /\ pc = "kb_listener_stop"
    /\ Goto("root_destroy")
    /\ UNCHANGED <<desktop, dispatcher, monitor, selection, rect, root, kb_listener, after, events, image>>

\* kb_listener.stop()
kb_listener_stop ==
    /\ pc = "kb_listener_stop"
    /\ kb_listener' = "stopped"
    /\ Goto("root_destroy")
    /\ UNCHANGED <<desktop, dispatcher, monitor, selection, rect, root, after, events, image>>

\* root.destroy()
root_destroy ==
    /\ pc = "root_destroy"
    /\ root' = "destroyed"
    /\ Goto("crop")
    /\ UNCHANGED <<desktop, dispatcher, monitor, selection, rect, kb_listener, after, events, image>>

\* mutant of Region: the corners as dragged
RegionAsDragged(a, b) ==
    [x1 |-> a[1], y1 |-> a[2], x2 |-> b[1], y2 |-> b[2]]

\* the region of two corner points, in absolute screen coordinates
Region(a, b) ==
    [x1 |-> Min(a[1], b[1]), y1 |-> Min(a[2], b[2]),
     x2 |-> Max(a[1], b[1]), y2 |-> Max(a[2], b[2])]

\* mutant of TooSmall: only a region small in both axes is refused
TooSmallBoth(r) == r.x2 - r.x1 < MinExtent /\ r.y2 - r.y1 < MinExtent

\* x2 - x1 < 5 or y2 - y1 < 5
TooSmall(r) == r.x2 - r.x1 < MinExtent \/ r.y2 - r.y1 < MinExtent

\* mutant of Box: the region is used as it is
BoxAbsolute(r) == <<r.x1, r.y1, r.x2, r.y2>>

\* the box cropped: the region in image coordinates
Box(r) ==
    <<r.x1 - monitor.left, r.y1 - monitor.top, r.x2 - monitor.left, r.y2 - monitor.top>>

\* Image.crop(box) of a raster: what it was cut from, the box, and its size
Cropped(of, box) ==
    [of |-> of, box |-> box, size |-> <<box[3] - box[1], box[4] - box[2]>>]

\* the end of _capture_with_overlay: raise SelectionCancelled, or crop the
\* screenshot and return
crop ==
    /\ pc = "crop"
    /\ IF selection.cancelled \/ selection.start = NoPoint \/ selection.end = NoPoint
       THEN Raise(SelectionCancelled) /\ image' = image
       ELSE LET r == Region(selection.start, selection.end) IN
            IF TooSmall(r)
            THEN Raise(SelectionCancelled) /\ image' = image
            ELSE /\ image' = Cropped("full_image", Box(r))
                 /\ pc' = "returned"
                 /\ UNCHANGED <<result, raised>>
    /\ UNCHANGED <<desktop, dispatcher, monitor, selection, rect, root, kb_listener, after, events>>

NextOverlay ==
    \/ capture_with_overlay
    \/ on_mouse_press
    \/ on_mouse_drag
    \/ on_mouse_release
    \/ on_right_click
    \/ on_key_press
    \/ after_cancel
    \/ kb_listener_stop
    \/ root_destroy
    \/ crop

SpecOverlay == InitOverlay /\ [][NextOverlay]_vars

(***************************************************************************)
(* detect_platform (src/snag/platform.py) and capture_region with          *)
(* _capture_wayland (src/snag/capture.py).  A run starts at                *)
(* capture_region with some sys.platform, some environment and some set of *)
(* executables on PATH; the overlay path ends where _capture_with_overlay  *)
(* starts.                                                                 *)
(***************************************************************************)
LINUX_X11 == "linux_x11"

LINUX_WAYLAND == "linux_wayland"

WINDOWS == "windows"

MACOS == "macos"

UNKNOWN == "unknown"

SysPlatforms == {"win32", "darwin", "linux", "linux2", "freebsd13", "cygwin"}

\* sys.platform.startswith("linux"), over SysPlatforms
StartsWithLinux(sp) == sp \in {"linux", "linux2"}

Unset == "<unset>"

Environs ==
    [WAYLAND_DISPLAY : {Unset, "", "wayland-0"},
     XDG_SESSION_TYPE : {Unset, "", "wayland", "x11", "tty"},
     DISPLAY : {Unset, "", ":0"}]

\* os.environ.get(name) is true: the variable is set and not empty
Truthy(v) == v \notin {Unset, ""}

\* mutant of detect_platform: DISPLAY is looked at before the Wayland signs
detect_platform_display_first(sp, env) ==
    IF sp = "win32" THEN WINDOWS
    ELSE IF sp = "darwin" THEN MACOS
    ELSE IF StartsWithLinux(sp)
         THEN IF Truthy(env.DISPLAY) THEN LINUX_X11
              ELSE IF Truthy(env.WAYLAND_DISPLAY) THEN LINUX_WAYLAND
              ELSE IF env.XDG_SESSION_TYPE = "wayland" THEN LINUX_WAYLAND
              ELSE LINUX_X11
    ELSE UNKNOWN

detect_platform(sp, env) ==
    IF sp = "win32" THEN WINDOWS
    ELSE IF sp = "darwin" THEN MACOS
    ELSE IF StartsWithLinux(sp)
         THEN IF Truthy(env.WAYLAND_DISPLAY) THEN LINUX_WAYLAND
              ELSE IF env.XDG_SESSION_TYPE = "wayland" THEN LINUX_WAYLAND
              ELSE IF Truthy(env.DISPLAY) THEN LINUX_X11
              ELSE IF env.XDG_SESSION_TYPE = "x11" THEN LINUX_X11
              ELSE LINUX_X11
    ELSE UNKNOWN

CaptureError(msg) == Exc("CaptureError", msg, 0, "")

\* subprocess.run of an executable that is not on PATH
FileNotFoundError(tool) == Exc("FileNotFoundError", tool, 0, "")

Tools == {"which", "slurp", "grim"}

\* a geometry as slurp prints it, and what slurp may leave on its stdout
Geometry == <<"1", ",", "2", " ", "3", "x", "4">>

SlurpOutputs == {<<>>, <<"\n">>, <<" ", "\n">>, Geometry, Geometry \o <<"\n">>}

ExitCodes == {0, 1}

\* a process that ran: its argv, its exit status, its stdout
Ran(argv, rc, stdout) == [ev |-> "run", n |-> rc, argv |-> argv, stdout |-> stdout]

\* the state of describe_image but its log
describing == <<inputs, attempt, last_error, http, zai>>

\* the state of the overlay but the image
screen == <<monitor, selection, rect, root, kb_listener, after, events>>

InitCapture ==
    /\ pc = "capture_region"
    /\ provider = "google"
    /\ model = "gemini-2.5-flash"
    /\ max_retries = 0
    /\ key = "sk-key"
    /\ attempt = 0
    /\ last_error = None
    /\ result = <<>>
    /\ raised = None
    /\ log = <<>>
    /\ resps = <<>>
    /\ json_error_base = "undecided"
    /\ exc = None
    /\ ret = <<>>
    /\ procs = <<>>
    /\ files = <<>>
    /\ temp_path = 0
    /\ client = NoClient
    /\ NoOverlay
    /\ env_files = <<"absent", "absent", "absent">>
    /\ sys_platform \in SysPlatforms
    /\ environ \in Environs
    /\ installed \in SUBSET Tools
    /\ platform = "none"
    /\ region = <<>>
    /\ clipboard = <<>>
    /\ exit_code = -1

capture_region ==
    /\ pc = "capture_region"
    /\ platform' = detect_platform(sys_platform, environ)
    /\ IF platform' = LINUX_WAYLAND THEN Goto("_capture_wayland")
       ELSE IF platform' \in {LINUX_X11, WINDOWS, MACOS} THEN Goto("_capture_with_overlay")
       ELSE Raise(CaptureError("Unsupported platform"))
    /\ UNCHANGED <<describing, screen, log, image, env_files, sys_platform, environ, installed,
                   region, clipboard, exit_code>>

\* subprocess.run(["which", tool], check=True) inside the try of the tool
\* check: `which` exits 0 when it finds the tool
Which(tool, at, next) ==
    /\ pc = at
    /\ IF "which" \notin installed
       THEN Raise(FileNotFoundError("which")) /\ log' = log
       ELSE LET rc == IF tool \in installed THEN 0 ELSE 1
            IN /\ log' = Append(log, Ran(<<"which", tool>>, rc, <<>>))
               /\ IF rc = 0 THEN Goto(next)
                  ELSE Raise(CaptureError("Wayland capture requires 'slurp' and 'grim'"))
    /\ UNCHANGED <<describing, screen, image, desktop>>

which_slurp == Which("slurp", "_capture_wayland", "which_grim")

which_grim == Which("grim", "which_grim", "slurp")

\* subprocess.run(["slurp"], check=True), region = result.stdout.strip(),
\* and the test of an empty region
slurp ==
    /\ pc = "slurp"
    /\ \E rc \in ExitCodes, stdout \in SlurpOutputs :
         /\ log' = Append(log, Ran(<<"slurp">>, rc, stdout))
         /\ IF rc # 0
            THEN Raise(SelectionCancelled) /\ region' = region
            ELSE /\ region' = Strip(stdout)
                 /\ IF region' = <<>> THEN Raise(SelectionCancelled) ELSE Goto("grim")
    /\ UNCHANGED <<describing, screen, image, env_files, sys_platform, environ, installed,
                   platform, clipboard, exit_code>>

\* subprocess.run(["grim", "-g", region, "-"], check=True) and Image.open
grim ==
    /\ pc = "grim"
    /\ \E rc \in ExitCodes :
         /\ log' = Append(log, Ran(<<"grim", "-g", region, "-">>, rc, <<>>))
         /\ IF rc # 0
            THEN Raise(CaptureError("Screenshot failed")) /\ image' = image
            ELSE /\ image' = [of |-> "grim", box |-> region, size |-> <<>>]
                 /\ Goto("returned")
    /\ UNCHANGED <<describing, screen, desktop>>

NextCapture ==
    \/ capture_region
    \/ which_slurp
    \/ which_grim
    \/ slurp
    \/ grim

SpecCapture == InitCapture /\ [][NextCapture]_vars

(***************************************************************************)
(* main (src/snag/main.py), for a run without --update and --setup, from   *)
(* the test of the provider's key on.  capture_region and describe_image   *)
(* are taken by their outcomes; the calls main makes are logged in order,  *)
(* each with the type of the exception it raised, "None" for none.         *)
(***************************************************************************)
MainCall(ev, type) == [ev |-> ev, n |-> IF type = "None" THEN 0 ELSE 1, raised |-> type]

\* what capture_region can return
Captures ==
    {Cropped("full_image", <<40, 40, 100, 100>>),
     [of |-> "grim", box |-> Geometry, size |-> <<>>]}

\* what capture_region can raise
CaptureRaises ==
    {SelectionCancelled, CaptureError("Screenshot failed"), FileNotFoundError("which")}

\* what describe_image can return, as lines
Descriptions == {<<"a cat">>, <<"def f():", "    pass">>}

\* what describe_image can raise
DescribeRaises == {VisionError("API error"), Exc("AttributeError", "", 0, "")}

\* what pyperclip.copy raises without a clipboard mechanism
PyperclipException == Exc("PyperclipException", "", 0, "")

\* what a .env search path holds for the provider's credential variable:
\* no file; a file with no line for it; a line with an empty value; a line
\* with a value
EnvFiles == {"absent", "other", "empty", "value"}

\* load_dotenv(path, override=True) of the first path that exists, on the
\* value k the variable has in the shell environment
RECURSIVE LoadDotenv(_, _)
LoadDotenv(k, fs) ==
    IF fs = <<>> THEN k
    ELSE IF Head(fs) = "absent" THEN LoadDotenv(k, Tail(fs))
    ELSE IF Head(fs) = "value" THEN "sk-file"
    ELSE IF Head(fs) = "empty" THEN ""
    ELSE k

\* has_api_key: the variable is in os.environ and not empty, or a file of
\* ENV_LOCATIONS has a line for it with a value
has_api_key(k, fs) == Truthy(k) \/ \E i \in 1 .. Len(fs) : fs[i] = "value"

\* the VisionError of get_gemini_api_key, get_openrouter_api_key and
\* get_zai_api_key
KeyNotFound(p) ==
    VisionError(IF p = "google" THEN "GEMINI_API_KEY not found"
                ELSE IF p = "openrouter" THEN "OPENROUTER_API_KEY not found"
                ELSE "Z_AI_API_KEY not found")

\* describe_image gets as far as its retry loop
Describes(p, m, k) ==
    /\ p \in {"google", "openrouter", "zai"}
    /\ p = "google" => KnownGoogleModel(m)
    /\ ~KeyMissing(k)

\* what describe_image can raise for provider p, model m and the value k
\* of the credential variable
DescribeRaisesFor(p, m, k) ==
    IF p \notin {"google", "openrouter", "zai"} THEN {VisionError("Unknown provider")}
    ELSE IF p = "google" /\ ~KnownGoogleModel(m) THEN {VisionError("Unknown Google model")}
    ELSE IF KeyMissing(k)
         THEN IF p = "zai"
              THEN {VisionError("Z.AI provider requires Node.js v22.0.0 or later"),
                    KeyNotFound(p)}
              ELSE {KeyNotFound(p)}
    ELSE DescribeRaises

InitMain ==
    /\ pc = "main"
    /\ provider \in Providers
    /\ model \in Models
    /\ max_retries = 3
    /\ key \in EnvValues
    /\ attempt = 0
    /\ last_error = None
    /\ result = <<>>
    /\ raised = None
    /\ log = <<>>
    /\ resps = <<>>
    /\ json_error_base = "undecided"
    /\ exc = None
    /\ ret = <<>>
    /\ procs = <<>>
    /\ files = <<>>
    /\ temp_path = 0
    /\ client = NoClient
    /\ NoOverlay
    /\ env_files \in [1 .. 3 -> EnvFiles]
    /\ sys_platform = "linux"
    /\ environ = [WAYLAND_DISPLAY |-> "<unset>", XDG_SESSION_TYPE |-> "<unset>", DISPLAY |-> ":0"]
    /\ installed = {}
    /\ platform = "none"
    /\ region = <<>>
    /\ clipboard = <<>>
    /\ exit_code = -1

\* what main leaves alone
elsewhere ==
    <<provider, model, max_retries, attempt, last_error, http, ret, procs, files,
      temp_path, client, screen,
      env_files, sys_platform, environ, installed, platform, region>>

\* return code: main returns
Exit(code) ==
    /\ pc' = "exited"
    /\ exit_code' = code

\* from .vision import VisionError, describe_image: the module is run, and
\* with it load_dotenv(first existing path, override=True)
main_import_vision ==
    /\ pc = "main"
    /\ key' = LoadDotenv(key, env_files)
    /\ pc' = "main_has_api_key"
    /\ UNCHANGED <<elsewhere, result, raised, exc, image, clipboard, log, exit_code>>

\* if not has_api_key(provider)
main_has_api_key ==
    /\ pc = "main_has_api_key"
    /\ IF has_api_key(key, env_files)
       THEN pc' = "main_capture" /\ UNCHANGED <<log, exit_code>>
       ELSE /\ log' = Append(log, MainCall("stderr", "None"))
            /\ Exit(1)
    /\ UNCHANGED <<elsewhere, key, result, raised, exc, image, clipboard>>

\* image = capture_region()
main_capture ==
    /\ pc = "main_capture"
    /\ \/ \E im \in Captures :
            /\ image' = im
            /\ exc' = exc
            /\ log' = Append(log, MainCall("capture_region", "None"))
            /\ pc' = "main_notify_processing"
       \/ \E e \in CaptureRaises :
            /\ image' = image
            /\ exc' = e
            /\ log' = Append(log, MainCall("capture_region", e.type))
            /\ pc' = "main_except"
    /\ UNCHANGED <<elsewhere, key, result, raised, clipboard, exit_code>>

\* mutant of main_notify_processing: the clipboard is written next
main_skip_describe ==
    /\ pc = "main_notify_processing"
    /\ log' = Append(log, MainCall("notify_processing", "None"))
    /\ pc' = "main_copy"
    /\ UNCHANGED <<elsewhere, key, result, raised, exc, image, clipboard, exit_code>>

\* notify_processing(): the notifier swallows its own failures
main_notify_processing ==
    /\ pc = "main_notify_processing"
    /\ log' = Append(log, MainCall("notify_processing", "None"))
    /\ pc' = "main_describe"
    /\ UNCHANGED <<elsewhere, key, result, raised, exc, image, clipboard, exit_code>>

\* result = describe_image(image, model=model, provider=provider)
main_describe ==
    /\ pc = "main_describe"
    /\ \/ \E text \in Descriptions :
            /\ Describes(provider, model, key)
            /\ result' = text
            /\ exc' = exc
            /\ log' = Append(log, MainCall("describe_image", "None"))
            /\ pc' = "main_copy"
       \/ \E e \in DescribeRaisesFor(provider, model, key) :
            /\ result' = result
            /\ exc' = e
            /\ log' = Append(log, MainCall("describe_image", e.type))
            /\ pc' = "main_except"
    /\ UNCHANGED <<elsewhere, key, raised, image, clipboard, exit_code>>

\* copy_to_clipboard(result)
main_copy ==
    /\ pc = "main_copy"
    /\ \/ /\ clipboard' = Append(clipboard, result)
          /\ exc' = exc
          /\ log' = Append(log, MainCall("copy_to_clipboard", "None"))
          /\ pc' = "main_notify_success"
       \/ /\ clipboard' = clipboard
          /\ exc' = PyperclipException
          /\ log' = Append(log, MainCall("copy_to_clipboard", PyperclipException.type))
          /\ pc' = "main_except"
    /\ UNCHANGED <<elsewhere, key, result, raised, image, exit_code>>

\* notify_success(result); return 0
main_notify_success ==
    /\ pc = "main_notify_success"
    /\ log' = Append(log, MainCall("notify_success", "None"))
    /\ Exit(0)
    /\ UNCHANGED <<elsewhere, key, result, raised, exc, image, clipboard>>

\* mutant of main_except: a cancelled selection is reported like an error
main_except_reports_cancel ==
    /\ pc = "main_except"
    /\ exc' = None
    /\ log' = log \o <<MainCall("notify_error", "None"), MainCall("stderr", "None")>>
    /\ Exit(1)
    /\ UNCHANGED <<elsewhere, key, result, raised, image, clipboard>>

\* the except clauses of main
main_except ==
    /\ pc = "main_except"
    /\ exc' = None
    /\ IF exc.type = "SelectionCancelled"
       THEN log' = log /\ Exit(0)
       ELSE /\ log' = log \o <<MainCall("notify_error", "None"), MainCall("stderr", "None")>>
            /\ Exit(1)
    /\ UNCHANGED <<elsewhere, key, result, raised, image, clipboard>>

NextMain ==
    \/ main_import_vision
    \/ main_has_api_key
    \/ main_capture
    \/ main_notify_processing
    \/ main_describe
    \/ main_copy
    \/ main_notify_success
    \/ main_except

SpecMain == InitMain /\ [][NextMain]_vars


(***************************************************************************)
(* Vocabulary of the properties.                                           *)
(***************************************************************************)
HttpProviders == {"google", "openrouter"}

Done == pc \in {"returned", "raised"}

IsHttpEv(e) == e.ev \in {"post", "sleep"}

\* the POSTs and sleeps of the call, in order
HttpLog == SelectSeq(log, IsHttpEv)

Is429(r) == r.kind = "response" /\ r.status = 429

IsGood200(r) ==
    r.kind = "response" /\ r.status = 200 /\ r.body.parse = "object" /\ r.body.shape = "text"

IsBad200(r) == r.kind = "response" /\ r.status = 200 /\ ~IsGood200(r)

IsErrorStatus(r) == r.kind = "response" /\ r.status \notin {200, 429}

\* the failures the retry policy names: timeout, network failure, 429
Retryable(r) == r.kind \in {"timeout", "neterr"} \/ Is429(r)

\* the error the policy attaches to a retryable failure
RetryError(r) ==
    IF r.kind = "timeout" THEN VisionError("Request timed out")
    ELSE IF r.kind = "neterr" THEN VisionError("Network error")
    ELSE VisionError("Rate limited (429), retrying...")

\* POST 0, 2^0 s, POST 1, 2^1 s, ..., 2^(n-1) s, POST n
BackoffLog(n) ==
    [i \in 1 .. (2 * n + 1) |->
        IF i % 2 = 1 THEN Ev("post", (i - 1) \div 2)
        ELSE Ev("sleep", 2 ^ ((i \div 2) - 1))]

Running == Cardinality({i \in 1 .. Len(procs) : procs[i] = "running"})

(***************************************************************************)
(* C1.  HTTP providers: N consecutive 429 responses followed by a 200 with *)
(* a well-formed body (N < max_retries) make the call return the 200's     *)
(* text after exactly N+1 POSTs and N waits, wait k lasting 2^k seconds    *)
(* and lying between POST k and POST k+1.                                  *)
(***************************************************************************)
C1_RetryThenSuccess ==
    LET n == Len(resps) - 1 IN
    (/\ provider \in HttpProviders
     /\ n >= 0
     /\ \A i \in 1 .. n : Is429(resps[i])
     /\ IsGood200(resps[n + 1]))
    => /\ pc = "returned"
       /\ result = <<resps[n + 1].body.text>>
       /\ HttpLog = BackoffLog(n)

C1_Witness ==
    /\ provider = "google"
    /\ pc = "returned"
    /\ Len(resps) = 3
    /\ Is429(resps[1]) /\ Is429(resps[2])

(***************************************************************************)
(* C2.  HTTP providers: when every one of the max_retries attempts fails   *)
(* retryably (429, timeout, network failure, in any mix) exactly           *)
(* max_retries POSTs are made, no further attempt is possible, and the     *)
(* VisionError raised is the error of the last attempt.                    *)
(***************************************************************************)
C2_ExhaustedRaisesLast ==
    (/\ provider \in HttpProviders
     /\ Len(resps) = max_retries
     /\ \A i \in 1 .. Len(resps) : Retryable(resps[i]))
    => /\ Count("post") = max_retries
       /\ max_retries >= 1 =>
            /\ pc \in {"google_loop", "openrouter_loop", "raised"}
            /\ pc # "raised" => attempt = max_retries
            /\ pc = "raised" => raised = RetryError(resps[max_retries])

C2_Witness ==
    /\ provider = "openrouter"
    /\ pc = "raised"
    /\ max_retries = 3
    /\ Len(resps) = 3
    /\ resps[1].kind = "timeout" /\ resps[2].kind = "neterr" /\ Is429(resps[3])

(***************************************************************************)
(* C3.  HTTP providers, in every execution: at most max_retries POSTs; a   *)
(* POST follows only a retryable failure (timeout, network failure, 429)   *)
(* of the previous one; the wait after failed attempt k is 2^k seconds.    *)
(***************************************************************************)
C3_RetryDiscipline ==
    provider \in HttpProviders
    => /\ Count("post") <= max_retries
       /\ \A i \in 1 .. Len(resps) - 1 : Retryable(resps[i])
       /\ \A j \in 1 .. Len(log) :
            log[j].ev = "sleep" =>
              /\ j > 1
              /\ log[j - 1].ev = "post"
              /\ log[j].n = 2 ^ log[j - 1].n

(***************************************************************************)
(* C4.  HTTP providers: a response whose status is neither 200 nor 429     *)
(* ends the call at once with a VisionError, on whatever attempt: it is    *)
(* the last POST, no wait follows it, and the error carries the server's   *)
(* error message when the body yields one, else the raw body.              *)
(***************************************************************************)
ServerMessageOrRaw(body) ==
    IF body.parse = "object" /\ body.error = "dict" /\ body.message # ""
    THEN body.message
    ELSE body.raw

C4_ErrorStatusEndsCall ==
    provider \in HttpProviders
    => \A i \in 1 .. Len(resps) :
         IsErrorStatus(resps[i]) =>
           /\ i = Len(resps)
           /\ pc = "raised"
           /\ raised = Exc("VisionError", "API error", resps[i].status,
                           ServerMessageOrRaw(resps[i].body))
           /\ log[Len(log)] = Ev("post", i - 1)
           /\ Count("post") = i

C4_Witness ==
    /\ provider = "google"
    /\ pc = "raised"
    /\ Len(resps) = 2
    /\ resps[2].status = 500
    /\ resps[2].body = B_ERR_MSG
    /\ raised.detail = "quota exceeded"

(***************************************************************************)
(* C5.  HTTP providers: a 200 response whose body is malformed or lacks    *)
(* the expected shape ends the call with a VisionError and is never        *)
(* retried: no wait and no POST follows it.                                *)
(***************************************************************************)
C5_Malformed200Unrecoverable ==
    provider \in HttpProviders
    => \A i \in 1 .. Len(resps) :
         IsBad200(resps[i]) =>
           /\ i = Len(resps)
           /\ pc = "raised"
           /\ raised.type = "VisionError"
           /\ log[Len(log)] = Ev("post", i - 1)

(***************************************************************************)
(* C6.  An unknown provider tag makes describe_image raise VisionError at  *)
(* once: no HTTP call, no subprocess, no credential lookup, no retry and   *)
(* no wait, for any model and max_retries.                                 *)
(***************************************************************************)
C6_UnknownProvider ==
    provider \notin {"google", "openrouter", "zai"}
    => /\ log = <<>>
       /\ resps = <<>>
       /\ procs = <<>>
       /\ attempt = 0
       /\ pc \in {"describe_image", "raised"}
       /\ pc = "raised" => raised = VisionError("Unknown provider")

C6_Witness ==
    /\ provider = "bogus"
    /\ pc = "raised"
    /\ max_retries = 3

(***************************************************************************)
(* C7.  Provider google with a model that is not a key of GOOGLE_MODELS    *)
(* raises VisionError before any network call, whether or not a            *)
(* credential is configured.                                               *)
(***************************************************************************)
C7_UnknownGoogleModel ==
    (provider = "google" /\ model \notin GOOGLE_MODELS)
    => /\ resps = <<>>
       /\ Count("post") = 0
       /\ pc \in {"describe_image", "describe_image_google", "raised"}
       /\ pc = "raised" => raised = VisionError("Unknown Google model")

C7_Witness ==
    /\ provider = "google"
    /\ model = "glm-4.6v"
    /\ key = "sk-key"
    /\ max_retries = 3
    /\ pc = "raised"

(***************************************************************************)
(* C8.  For each of the three strategies a missing or empty credential     *)
(* makes the call fail with VisionError before any network call, and no    *)
(* retry is attempted.  As claimed: also before any subprocess is spawned. *)
(* As amended: before any MCP server subprocess is spawned; the zai        *)
(* strategy has run `node --version` by then.                              *)
(***************************************************************************)
CredentialAbsent ==
    provider \in {"google", "openrouter", "zai"} /\ key \in {"<unset>", ""}

C8_MissingCredential ==
    CredentialAbsent
    => /\ resps = <<>>
       /\ Count("post") = 0
       /\ procs = <<>>
       /\ Count("spawn") = 0
       /\ attempt = 0
       /\ Count("sleep") = 0
       /\ pc \in {"describe_image", "describe_image_google",
                  "describe_image_openrouter", "describe_image_zai",
                  "zai_key", "raised"}
       /\ pc = "raised" => raised.type = "VisionError"

\* the claim as written: no subprocess at all, the Node.js check included
C8_NoSubprocessAtAll ==
    CredentialAbsent
    => /\ C8_MissingCredential
       /\ \A j \in 1 .. Len(log) : ~(log[j].ev = "node" /\ log[j].n = 1)

C8_Witness ==
    /\ provider = "zai"
    /\ key = ""
    /\ pc = "raised"
    /\ raised = VisionError("Z_AI_API_KEY not found")

(***************************************************************************)
(* C9.  zai: on every exit path of every attempt, a failure while writing  *)
(* the image included, no transient image file exists when                 *)
(* describe_image_zai returns or raises.                                   *)
(***************************************************************************)
C9_TempFileDeleted ==
    (provider = "zai" /\ Done)
    => \A i \in 1 .. Len(files) : files[i] = "deleted"

(***************************************************************************)
(* C10.  zai: no spawned MCP server is leaked: none is running when        *)
(* describe_image_zai returns or raises, and never are two of them alive   *)
(* together during the retry loop.                                         *)
(***************************************************************************)
C10_NoSubprocessLeak ==
    provider = "zai"
    => /\ Running <= 1
       /\ Done => Running = 0

(***************************************************************************)
(* Vocabulary of the properties of one MCPClient.                          *)
(***************************************************************************)
\* the names of the methods called so far, in order
Called == [i \in 1 .. Len(Calls) |-> Calls[i].ev]

\* the positions at which _recv runs
RecvLabels == {"init_recv", "call_recv", "api_init_recv", "api_call_recv"}

\* the positions at which _send_request starts
RequestLabels == {"init_send", "call_send", "api_init_send", "api_call_tool"}

NotConnectedError == MCPError("MCP server not connected", "")

(***************************************************************************)
(* C11.  A read (_recv) during which the server writes no line ends with   *)
(* the timeout: the step completes, the process the client held has been   *)
(* sent terminate (and kill when the bounded wait ran out) and is gone,    *)
(* the MCPError naming the timeout is in flight, and the process handle is *)
(* cleared; a request made on the client after that fails with 'not        *)
(* connected' and nothing is written or spawned.                           *)
(***************************************************************************)
C11_ReadTimeout ==
    /\ [][(pc \in RecvLabels /\ client'.line.kind = "timeout")
           => /\ pc' # pc
              /\ exc' = MCPError("MCP server did not respond within", "")
              /\ procs[client.process] = "running"
              /\ procs'[client.process] = "exited"
              /\ client'.signals \in {client.signals \o <<"terminate">>,
                                      client.signals \o <<"terminate", "kill">>}
              /\ NotConnected(client')]_vars
    /\ [][(pc \in RequestLabels /\ client.line.kind = "timeout" /\ NotConnected(client))
           => /\ exc' = NotConnectedError
              /\ client'.wire = client.wire
              /\ procs' = procs
              /\ NotConnected(client')]_vars

C11_Witness ==
    /\ pc = "idle"
    /\ Called = <<"connect", "call_tool", "call_tool">>
    /\ client.line.kind = "timeout"
    /\ client.signals = <<"terminate", "kill">>
    /\ procs = <<"exited">>
    /\ raised = NotConnectedError

(***************************************************************************)
(* C12.  disconnect() raises nothing and leaves the client without a       *)
(* process handle, whatever the client's history; on a client that holds   *)
(* no process (a second disconnect in a row, no successful connect before, *)
(* the process killed by a timeout) it changes nothing: no signal is sent, *)
(* no process changes state.                                               *)
(***************************************************************************)
C12_DisconnectIdempotent ==
    /\ [][pc = "api_disconnect"
           => /\ exc' = None
              /\ NotConnected(client')
              /\ NotConnected(client) => (client' = client /\ procs' = procs)]_vars
    /\ []((pc = "idle" /\ Calls # <<>> /\ Called[Len(Called)] = "disconnect")
           => (raised = None /\ NotConnected(client)))

C12_Witness ==
    /\ pc = "idle"
    /\ Called = <<"connect", "disconnect", "disconnect">>
    /\ Len(client.wire) = 2
    /\ client.signals = <<"terminate">>
    /\ raised = None
    /\ NotConnected(client)

(***************************************************************************)
(* C13.  connect() spawns, sends `initialize`, reads its response, then    *)
(* sends `notifications/initialized`, which carries no id; connect has     *)
(* returned only after all four; and on the wire to any one server no      *)
(* tools/call request comes before the initialized notification.           *)
(***************************************************************************)
\* the methods of the messages written so far to process p, in order
WireTo(p) ==
    LET to_p(w) == w.to = p
        ws == SelectSeq(client.wire, to_p)
    IN [i \in 1 .. Len(ws) |-> ws[i].method]

\* the last call was connect and it returned
ConnectReturned ==
    /\ pc = "idle"
    /\ Calls # <<>>
    /\ Called[Len(Called)] = "connect"
    /\ raised = None

C13_HandshakeOrder ==
    /\ \A i \in 1 .. Len(client.wire) :
         LET w == client.wire[i] IN
         /\ w.to \in 1 .. Len(procs)
         /\ w.method = "notifications/initialized" <=> w.id = 0
    /\ \A p \in 1 .. Len(procs) :
         LET ms == WireTo(p) IN
         \A i \in 1 .. Len(ms) :
           /\ ms[i] = "initialize" <=> i = 1
           /\ ms[i] = "notifications/initialized" <=> i = 2
           /\ ms[i] = "tools/call" <=> i >= 3
    /\ ConnectReturned
       => /\ ~NotConnected(client)
          /\ WireTo(client.process) = <<"initialize", "notifications/initialized">>
          /\ client.line.kind = "json"

(***************************************************************************)
(* C14.  When connect() has raised, whatever failed (the spawn, a write on *)
(* the pipe, a closed stream, invalid JSON, an error response, a read      *)
(* timeout), the process it spawned is gone and the client holds no        *)
(* process handle.                                                         *)
(***************************************************************************)
ConnectRaised ==
    /\ pc = "idle"
    /\ Calls # <<>>
    /\ Called[Len(Called)] = "connect"
    /\ raised # None

C14_FailedConnectCleansUp ==
    ConnectRaised => (NotConnected(client) /\ Running = 0)

(***************************************************************************)
(* C15.  call_tool on a client that holds no process (never connected,     *)
(* disconnected, or its process killed by a timeout) raises MCPError 'not  *)
(* connected'; nothing is written to any process and nothing is spawned.   *)
(***************************************************************************)
C15_CallToolUnconnected ==
    /\ [][(pc = "api_call_tool" /\ client.process = 0)
           => /\ pc' = "api_exit"
              /\ exc' = NotConnectedError
              /\ client'.wire = client.wire
              /\ client'.process = 0
              /\ procs' = procs
              /\ log' = log]_vars
    /\ [][pc = "api_exit" => (raised' = exc /\ pc' = "idle")]_vars

C15_Witness ==
    /\ pc = "idle"
    /\ Called = <<"connect", "disconnect", "call_tool">>
    /\ raised = NotConnectedError
    /\ Len(client.wire) = 2
    /\ procs = <<"exited">>
    /\ Count("spawn") = 1

(***************************************************************************)
(* C16.  Over the lifetime of one MCPClient, across disconnect and         *)
(* reconnect and across requests that fail, every request takes the next   *)
(* id: the first request made takes 1, the ids written are strictly        *)
(* increasing and none is written twice; a request that fails before its   *)
(* write has consumed its id.  A notification carries no id and takes      *)
(* none.                                                                   *)
(***************************************************************************)
IsRequest(w) == w.method # "notifications/initialized"

\* the ids of the requests written so far, in order
RequestIds ==
    LET ws == SelectSeq(client.wire, IsRequest)
    IN [i \in 1 .. Len(ws) |-> ws[i].id]

\* the ids written so far: increasing, among those taken, none on a
\* notification
IdsIncrease ==
    /\ \A i \in 1 .. Len(RequestIds) :
         /\ RequestIds[i] \in 1 .. client.request_id
         /\ \A j \in 1 .. (i - 1) : RequestIds[j] < RequestIds[i]
    /\ (Len(RequestIds) = client.request_id)
       => RequestIds = [k \in 1 .. client.request_id |-> k]
    /\ \A n \in 1 .. Len(client.wire) :
         ~IsRequest(client.wire[n]) => client.wire[n].id = 0

C16_RequestIdsIncrease ==
    /\ []IdsIncrease
    /\ [][IF pc \in RequestLabels
           THEN /\ client'.request_id = client.request_id + 1
                /\ client'.wire # client.wire
                   => client'.wire[Len(client'.wire)].id = client'.request_id
           ELSE client'.request_id = client.request_id]_vars

C16_Witness ==
    /\ pc = "idle"
    /\ Called = <<"connect", "disconnect", "connect">>
    /\ raised = None
    /\ RequestIds = <<1, 2>>
    /\ Len(client.wire) = 4
    /\ client.wire[3] = [method |-> "initialize", id |-> 2, to |-> 2]

(***************************************************************************)
(* C17.  The message _send_request takes as the answer to a request        *)
(* carries the id of that request, whatever the server wrote first.        *)
(***************************************************************************)
C17_ResponseCorrelated ==
    [][(pc \in RecvLabels /\ RequestError(client'.line) = None)
       => client'.line.id = client.request_id]_vars

(***************************************************************************)
(* C18.  When call_tool returns for a result whose content is a list, the  *)
(* text returned is made of the texts of the items that are objects with   *)
(* type "text", in the order of the list, one per line; no other item      *)
(* contributes; with no such item the empty string is returned.            *)
(***************************************************************************)
CallToolReturned ==
    /\ pc = "idle"
    /\ Calls # <<>>
    /\ Called[Len(Called)] = "call_tool"
    /\ raised = None

\* the positions of the text parts of a content list
TextPositions(parts) ==
    {i \in 1 .. Len(parts) : parts[i].json = "object" /\ parts[i].type = "text"}

\* the k-th smallest member of a set of positions
RECURSIVE Kth(_, _)
Kth(S, k) ==
    LET m == CHOOSE x \in S : \A y \in S : x <= y
    IN IF k = 1 THEN m ELSE Kth(S \ {m}, k - 1)

C18_TextParts ==
    (CallToolReturned /\ client.line.msg.content = "list")
    => LET parts == client.line.msg.parts
           T == TextPositions(parts)
       IN IF T = {}
          THEN result = <<"">>
          ELSE /\ Len(result) = Cardinality(T)
               /\ \A k \in 1 .. Len(result) :
                    LET part == parts[Kth(T, k)]
                    IN result[k] = (IF part.text = Absent THEN "" ELSE part.text)

C18_Witness ==
    /\ CallToolReturned
    /\ client.line.msg = M_MIXED
    /\ result = <<"b", "", "a">>

(***************************************************************************)
(* C19.  zai: the Node.js check runs once, before anything else of the     *)
(* strategy.  When `node` is missing, exits non-zero, prints a version     *)
(* that cannot be parsed or whose major is below 22, or does not end in    *)
(* time, describe_image_zai raises VisionError: no MCP server is spawned,  *)
(* the credential is not looked up, no temp file is created, nothing is    *)
(* retried.                                                                *)
(***************************************************************************)
IsNodeEv(e) == e.ev = "node"

NodeLog == SelectSeq(log, IsNodeEv)

\* the runs of `node --version` that do not show Node.js 22 or later
Unmet(run) ==
    \/ run.kind \in {"FileNotFoundError", "TimeoutExpired"}
    \/ run.rc # 0
    \/ run.stdout \in {V18, VBare, VEmpty}

C19_NodeCheckFirst ==
    provider = "zai"
    => /\ Len(NodeLog) <= 1
       /\ (log # <<>> /\ pc # "describe_image_zai") => log[1].ev = "node"
       /\ (NodeLog # <<>> /\ Unmet(NodeLog[1].run))
          => /\ pc = "raised"
             /\ raised = VisionError("Z.AI provider requires Node.js v22.0.0 or later")
             /\ log = NodeLog
             /\ procs = <<>>
             /\ files = <<>>
             /\ attempt = 0
             /\ client = NoClient
       /\ (NodeLog # <<>> /\ ~Unmet(NodeLog[1].run)) => pc # "describe_image_zai"
       /\ (NodeLog # <<>> /\ ~Unmet(NodeLog[1].run) /\ pc = "raised")
          => raised # VisionError("Z.AI provider requires Node.js v22.0.0 or later")

C19_Witness ==
    /\ provider = "zai"
    /\ pc = "raised"
    /\ Len(log) = 1
    /\ log[1].ev = "node"
    /\ log[1].run = [kind |-> "completed", rc |-> 0, stdout |-> V18]

(***************************************************************************)
(* Vocabulary of the properties of the overlay session.                    *)
(***************************************************************************)
IsLoopEv(e) == e \in {"press", "drag", "release", "right_click", "cancel"}

\* the events the main loop handled, in order
LoopEvents == SelectSeq(events, IsLoopEv)

\* the states of the session
OverlayState ==
    IF pc = "_capture_with_overlay" THEN "Starting"
    ELSE IF pc = "mainloop"
    THEN (IF selection.start = NoPoint THEN "Idle" ELSE "Dragging")
    ELSE IF LoopEvents[Len(LoopEvents)] = "release" THEN "Completed"
    ELSE "Cancelled"

\* the moves of the session on the events the main loop handles
OverlaySteps ==
    /\ (OverlayState = "Idle" /\ LoopEvents' = Append(LoopEvents, "press"))
       => (OverlayState' = "Dragging" /\ selection'.start # NoPoint)
    /\ (OverlayState = "Dragging" /\ LoopEvents' = Append(LoopEvents, "press"))
       => OverlayState' = "Dragging"
    /\ (OverlayState = "Dragging" /\ LoopEvents' = Append(LoopEvents, "drag"))
       => (OverlayState' = "Dragging" /\ selection' = selection)
    /\ (OverlayState = "Dragging" /\ LoopEvents' = Append(LoopEvents, "release"))
       => /\ OverlayState' = "Completed"
          /\ selection'.end # NoPoint
          /\ selection'.start = selection.start
    /\ (OverlayState \in {"Completed", "Cancelled"})
       => (OverlayState' = OverlayState /\ selection' = selection)

(***************************************************************************)
(* C20.  The overlay session moves Idle -press-> Dragging -move->          *)
(* Dragging -release-> Completed.  An image is returned only when the main *)
(* loop handled a press, which recorded the start point, and later a       *)
(* release, which recorded the end point, and handled no cancel.  A        *)
(* release with no press before it ends in SelectionCancelled.  A release  *)
(* is the last event the main loop handles.                                *)
(***************************************************************************)
C20_OverlayStateMachine ==
    /\ [](image # NoImage
           => /\ pc = "returned"
              /\ \E i, j \in 1 .. Len(LoopEvents) :
                   i < j /\ LoopEvents[i] = "press" /\ LoopEvents[j] = "release"
              /\ \A i \in 1 .. Len(LoopEvents) :
                   LoopEvents[i] \notin {"cancel", "right_click"}
              /\ selection.start # NoPoint
              /\ selection.end # NoPoint)
    /\ []((Done /\ \E j \in 1 .. Len(LoopEvents) :
                     /\ LoopEvents[j] = "release"
                     /\ \A i \in 1 .. (j - 1) : LoopEvents[i] # "press")
           => (pc = "raised" /\ raised = SelectionCancelled /\ image = NoImage))
    /\ [](\A j \in 1 .. Len(LoopEvents) :
             LoopEvents[j] = "release" => (j = Len(LoopEvents) /\ pc # "mainloop"))
    /\ [][OverlaySteps]_vars

C20_Witness ==
    /\ pc = "returned"
    /\ LoopEvents = <<"press", "drag", "release">>
    /\ selection.start = <<100, 100>>
    /\ selection.end = <<40, 40>>
    /\ image.of = "full_image"
    /\ image.box = <<40, 40, 100, 100>>

\* position i of events is a key press that schedules cancel, made while
\* the main loop had handled nothing that ends it
CancelKeyInLoop(i) ==
    /\ events[i] \in {"esc", "q"}
    /\ \A j \in 1 .. (i - 1) : events[j] \notin {"release", "right_click", "cancel"}

\* the session ended cancelled
EndedCancelled == pc = "raised" /\ raised = SelectionCancelled /\ image = NoImage

(***************************************************************************)
(* C21.  In Idle or Dragging, a right-click and an Escape or `q` key press *)
(* each lead to Cancelled and end the session loop.  Cancelled is final:   *)
(* once a cancel has been handled the main loop handles no further event   *)
(* and the session ends by raising SelectionCancelled without an image.    *)
(***************************************************************************)
C21_CancelFinal ==
    /\ \A j \in 1 .. Len(LoopEvents) :
         LoopEvents[j] \in {"right_click", "cancel"}
         => (j = Len(LoopEvents) /\ pc # "mainloop" /\ selection.cancelled)
    /\ (Done /\ LoopEvents # <<>>
        /\ LoopEvents[Len(LoopEvents)] \in {"right_click", "cancel"})
       => EndedCancelled
    /\ (Done /\ \E i \in 1 .. Len(events) : CancelKeyInLoop(i))
       => EndedCancelled

(***************************************************************************)
(* C22.  A session that ends with both extents of the two corner points    *)
(* at least 5 px returns the region x1 < x2, y1 < y2 whose corners are the *)
(* smaller and the larger coordinate of the two points in each axis: the   *)
(* same region whichever of the two corners was the start and along        *)
(* whichever diagonal of the rectangle the drag went.  (100,100)->(40,40)  *)
(* gives (40,40,100,100), 60 by 60.                                        *)
(***************************************************************************)
Lo(u, v) == IF u < v THEN u ELSE v

Hi(u, v) == IF u < v THEN v ELSE u

Extent(u, v) == Hi(u, v) - Lo(u, v)

\* the main loop ended on a release with the flag cancelled clear
Selected ==
    /\ Done
    /\ ~selection.cancelled
    /\ selection.start # NoPoint
    /\ selection.end # NoPoint

\* the region returned, in absolute screen coordinates
Returned ==
    <<image.box[1] + monitor.left, image.box[2] + monitor.top,
      image.box[3] + monitor.left, image.box[4] + monitor.top>>

C22_RegionNormalized ==
    Selected
    => LET a == selection.start
           b == selection.end
       IN /\ (Extent(a[1], b[1]) >= 5 /\ Extent(a[2], b[2]) >= 5)
             => /\ pc = "returned"
                /\ Returned = <<Lo(a[1], b[1]), Lo(a[2], b[2]), Hi(a[1], b[1]), Hi(a[2], b[2])>>
                /\ Returned[1] < Returned[3]
                /\ Returned[2] < Returned[4]
                /\ \A c \in {a, b, <<a[1], b[2]>>, <<b[1], a[2]>>} :
                     \A d \in {a, b, <<a[1], b[2]>>, <<b[1], a[2]>>} :
                       (c[1] # d[1] /\ c[2] # d[2])
                       => Box(Region(c, d)) = image.box
          /\ (a = Abs(<<100, 100>>) /\ b = Abs(<<40, 40>>))
             => (image.box = <<40, 40, 100, 100>> /\ image.size = <<60, 60>>)

C22_Witness ==
    /\ pc = "returned"
    /\ monitor.left = 0
    /\ selection.start = <<40, 100>>
    /\ selection.end = <<100, 40>>
    /\ image.box = <<40, 40, 100, 100>>

(***************************************************************************)
(* C23.  A drag completed with the horizontal or the vertical extent below *)
(* 5 px raises SelectionCancelled.  Every region returned is at least 5 px *)
(* wide and 5 px high, never empty or negative; an extent of exactly 5 is  *)
(* accepted.                                                               *)
(***************************************************************************)
C23_MinimumExtent ==
    /\ Selected
       => LET w == Extent(selection.start[1], selection.end[1])
              h == Extent(selection.start[2], selection.end[2])
          IN /\ (w < 5 \/ h < 5) => EndedCancelled
             /\ (w >= 5 /\ h >= 5) => pc = "returned"
    /\ pc = "returned"
       => /\ image.box[3] - image.box[1] >= 5
          /\ image.box[4] - image.box[2] >= 5
          /\ image.size[1] >= 5
          /\ image.size[2] >= 5

C23_Witness ==
    /\ pc = "raised"
    /\ raised = SelectionCancelled
    /\ ~selection.cancelled
    /\ selection.start = <<40, 40>>
    /\ selection.end = <<100, 44>>

\* an extent of exactly 5 in both axes is accepted
C23_WitnessFive ==
    /\ pc = "returned"
    /\ selection.start = <<45, 45>>
    /\ selection.end = <<40, 40>>
    /\ image.size = <<5, 5>>

(***************************************************************************)
(* C24.  For every region returned and every origin of the virtual screen, *)
(* negative ones included, the box cropped is the region with the origin   *)
(* subtracted from each coordinate, the image returned is x2-x1 wide and   *)
(* y2-y1 high, and it is cut from the screenshot itself, not from its      *)
(* darkened copy.                                                          *)
(***************************************************************************)
C24_CropTranslated ==
    pc = "returned"
    => LET a == selection.start
           b == selection.end
           x1 == Lo(a[1], b[1])
           y1 == Lo(a[2], b[2])
           x2 == Hi(a[1], b[1])
           y2 == Hi(a[2], b[2])
       IN /\ image.of = "full_image"
          /\ image.box = <<x1 - monitor.left, y1 - monitor.top,
                           x2 - monitor.left, y2 - monitor.top>>
          /\ image.size = <<x2 - x1, y2 - y1>>
          /\ \A i \in 1 .. 4 : image.box[i] >= 0

C24_Witness ==
    /\ pc = "returned"
    /\ monitor = [left |-> -1920, top |-> -200]
    /\ selection.start = <<-1820, -100>>
    /\ selection.end = <<-1880, -160>>
    /\ image = [of |-> "full_image", box |-> <<40, 40, 100, 100>>, size |-> <<60, 60>>]

(***************************************************************************)
(* C25.  On every way out of the overlay session (completed, cancelled by  *)
(* right-click, cancelled by key, drag too small) the key listener is      *)
(* stopped before the window is destroyed, and no listener runs when       *)
(* _capture_with_overlay has returned or raised.                           *)
(***************************************************************************)
C25_ListenerStoppedFirst ==
    /\ [](root = "destroyed" => kb_listener = "stopped")
    /\ [](Done => (kb_listener = "stopped" /\ root = "destroyed"))
    /\ [][(root # "destroyed" /\ root' = "destroyed") => kb_listener = "stopped"]_vars

C25_Witness ==
    /\ pc = "raised"
    /\ events = <<"press", "drag", "right_click">>
    /\ kb_listener = "stopped"
    /\ root = "destroyed"

\* the variable is in the environment
IsSet(v) == v # Unset

\* the variable is in the environment with a value that is not empty
IsSetNonEmpty(v) == v # Unset /\ v # ""

\* the priority of detect_platform, for a reading Has of "set"
Priority(Has(_), sp, env) ==
    IF sp = "win32" THEN WINDOWS
    ELSE IF sp = "darwin" THEN MACOS
    ELSE IF sp \notin {"linux", "linux2"} THEN UNKNOWN
    ELSE IF Has(env.WAYLAND_DISPLAY) THEN LINUX_WAYLAND
    ELSE IF env.XDG_SESSION_TYPE = "wayland" THEN LINUX_WAYLAND
    ELSE IF Has(env.DISPLAY) THEN LINUX_X11
    ELSE IF env.XDG_SESSION_TYPE = "x11" THEN LINUX_X11
    ELSE LINUX_X11

(***************************************************************************)
(* C26.  The platform detected is a function of sys.platform,              *)
(* WAYLAND_DISPLAY, XDG_SESSION_TYPE and DISPLAY with the priority win32,  *)
(* darwin, then on Linux WAYLAND_DISPLAY set, XDG_SESSION_TYPE = wayland,  *)
(* DISPLAY set, XDG_SESSION_TYPE = x11, else X11.  It is never Unknown on  *)
(* Linux and a Wayland sign wins over every X11 sign.  Here a variable     *)
(* that is in the environment counts as set, whatever its value.           *)
(***************************************************************************)
C26_PriorityOfSet ==
    platform # "none" => platform = Priority(IsSet, sys_platform, environ)

(***************************************************************************)
(* C26, amended.  The same priority, where a variable counts as set when   *)
(* it is in the environment with a value that is not empty: an empty       *)
(* WAYLAND_DISPLAY is no Wayland sign.                                     *)
(***************************************************************************)
C26_PriorityOfNonEmpty ==
    platform # "none"
    => /\ platform = Priority(IsSetNonEmpty, sys_platform, environ)
       /\ sys_platform \in {"linux", "linux2"} => platform \in {LINUX_WAYLAND, LINUX_X11}
       /\ (/\ sys_platform \in {"linux", "linux2"}
           /\ \/ IsSetNonEmpty(environ.WAYLAND_DISPLAY)
              \/ environ.XDG_SESSION_TYPE = "wayland")
          => platform = LINUX_WAYLAND

C26_Witness ==
    /\ platform = LINUX_WAYLAND
    /\ sys_platform = "linux"
    /\ environ = [WAYLAND_DISPLAY |-> "", XDG_SESSION_TYPE |-> "wayland", DISPLAY |-> ":0"]

IsRun(e) == e.ev = "run"

\* the processes that ran, in order
Runs == SelectSeq(log, IsRun)

RanTool(tool) == \E i \in 1 .. Len(Runs) : Runs[i].argv[1] = tool

\* the run of tool, when there is one
RunOf(tool) == Runs[CHOOSE i \in 1 .. Len(Runs) : Runs[i].argv[1] = tool]

WhichRuns == {i \in 1 .. Len(Runs) : Runs[i].argv[1] = "which"}

\* the selector ran, exited 0 and printed more than white space
Selected2(r) == r.n = 0 /\ \E i \in 1 .. Len(r.stdout) : r.stdout[i] \notin {" ", "\n"}

\* the steps of the external-selector capture run in order, each after the
\* success of the one before
WaylandOrder ==
    /\ \A i \in 1 .. Len(Runs) :
         Runs[i].argv[1] = <<"which", "which", "slurp", "grim">>[i]
    /\ \A i \in 1 .. (Len(Runs) - 1) : Runs[i].n = 0
    /\ RanTool("grim") => Selected2(RunOf("slurp"))

(***************************************************************************)
(* C27.  The external-selector capture runs the tool check, the selector   *)
(* and the grabber in this order, each only after the one before           *)
(* succeeded.  A missing slurp or grim raises CaptureError before the      *)
(* selector runs; a selector that exits non-zero or prints an empty        *)
(* geometry raises SelectionCancelled and the grabber does not run; a      *)
(* grabber that exits non-zero raises CaptureError; the grabber is given   *)
(* the geometry the selector printed.                                      *)
(***************************************************************************)
C27_WaylandSteps ==
    /\ WaylandOrder
    /\ (Done /\ platform = LINUX_WAYLAND /\ {"slurp", "grim"} \ installed # {})
       => (raised.type = "CaptureError" /\ ~RanTool("slurp"))
    /\ (Done /\ RanTool("slurp") /\ ~Selected2(RunOf("slurp")))
       => (raised = SelectionCancelled /\ ~RanTool("grim"))
    /\ (Done /\ RanTool("grim") /\ RunOf("grim").n # 0)
       => raised.type = "CaptureError"
    /\ RanTool("grim")
       => /\ RunOf("grim").argv = <<"grim", "-g", Geometry, "-">>
          /\ RunOf("slurp").stdout \in {Geometry, Geometry \o <<"\n">>}

(***************************************************************************)
(* C28.  capture_region takes one capture path, chosen by the platform     *)
(* detected, and never the other: on Linux with Wayland only the external  *)
(* selector (missing tools end in CaptureError, the overlay is not         *)
(* started); on X11, Windows and macOS only the overlay; on an unknown     *)
(* platform CaptureError with no capture attempted.                        *)
(***************************************************************************)
C28_OnePath ==
    platform # "none"
    => /\ platform = LINUX_WAYLAND
          => /\ pc # "_capture_with_overlay"
             /\ (Done /\ {"slurp", "grim"} \ installed # {})
                => raised.type = "CaptureError"
       /\ platform \in {LINUX_X11, WINDOWS, MACOS}
          => (pc = "_capture_with_overlay" /\ Runs = <<>>)
       /\ platform = UNKNOWN
          => /\ pc = "raised"
             /\ raised.type = "CaptureError"
             /\ Runs = <<>>
             /\ image = NoImage

\* main called ev and it raised type ("None": it returned)
Did(ev, type) == \E i \in 1 .. Len(log) : log[i] = [ev |-> ev, n |-> IF type = "None" THEN 0 ELSE 1, raised |-> type]

\* main called ev
Tried(ev) == \E i \in 1 .. Len(log) : log[i].ev = ev

(***************************************************************************)
(* C29.  In main a SelectionCancelled from the capture ends the run as a   *)
(* silent success: exit code 0, describe_image never called, nothing       *)
(* written to the clipboard, no error notification.  A CaptureError or a   *)
(* VisionError ends the run with exit code 1 after an error report and     *)
(* with nothing written to the clipboard.                                  *)
(***************************************************************************)
C29_CancelIsSilent ==
    /\ Did("capture_region", "SelectionCancelled")
       => /\ ~Tried("describe_image")
          /\ ~Tried("copy_to_clipboard")
          /\ clipboard = <<>>
          /\ ~Tried("notify_error")
          /\ ~Tried("stderr")
          /\ ~Tried("notify_success")
          /\ pc = "exited" => exit_code = 0
    /\ (Did("capture_region", "CaptureError") \/ Did("describe_image", "VisionError"))
       => /\ clipboard = <<>>
          /\ ~Tried("copy_to_clipboard")
          /\ pc = "exited"
             => (exit_code = 1 /\ Tried("notify_error") /\ Tried("stderr"))

C29_Witness ==
    /\ pc = "exited"
    /\ exit_code = 0
    /\ log = <<[ev |-> "capture_region", n |-> 1, raised |-> "SelectionCancelled"]>>
    /\ clipboard = <<>>

IsStep(e) ==
    e.ev \in {"capture_region", "describe_image", "copy_to_clipboard", "notify_success"}

\* the pipeline steps main started, in order
Steps == SelectSeq(log, IsStep)

(***************************************************************************)
(* C30.  In main the steps capture, describe, clipboard copy and success   *)
(* notification happen in this order, each started only after the one      *)
(* before succeeded.  The clipboard is written at most once in a run and   *)
(* only with the text a successful describe_image returned; exit code 0    *)
(* with the clipboard written implies that capture and describe both       *)
(* succeeded.                                                              *)
(***************************************************************************)
C30_PipelineOrder ==
    /\ \A i \in 1 .. Len(Steps) :
         Steps[i].ev = <<"capture_region", "describe_image", "copy_to_clipboard",
                         "notify_success">>[i]
    /\ \A i \in 1 .. (Len(Steps) - 1) : Steps[i].raised = "None"
    /\ Len(clipboard) <= 1
    /\ clipboard # <<>>
       => /\ Did("capture_region", "None")
          /\ Did("describe_image", "None")
          /\ clipboard[1] = result
          /\ result \in {<<"a cat">>, <<"def f():", "    pass">>}
    /\ (exit_code = 0 /\ clipboard # <<>>)
       => /\ image # NoImage
          /\ Did("copy_to_clipboard", "None")
          /\ Did("notify_success", "None")

C30_Witness ==
    /\ pc = "exited"
    /\ exit_code = 0
    /\ clipboard = <<<<"def f():", "    pass">>>>
    /\ Len(Steps) = 4

IsSleepEv(e) == e.ev = "sleep"

\* the waits of the call, in order
Sleeps == SelectSeq(log, IsSleepEv)

\* the call is at the head of a provider's retry loop
AtLoopHead == pc \in {"google_loop", "openrouter_loop", "zai_loop"}

(***************************************************************************)
(* C31.  The three providers follow one retry policy: back at the head of  *)
(* the loop after k failed attempts, k at most max_retries, each has       *)
(* waited 2^0, 2^1, ..., 2^(k-1) seconds, one wait after every failed      *)
(* attempt, the last attempt allowed included.                             *)
(***************************************************************************)
C31_UniformBackoff ==
    AtLoopHead
    => /\ attempt <= max_retries
       /\ Len(Sleeps) = attempt
       /\ \A i \in 1 .. Len(Sleeps) : Sleeps[i].n = 2 ^ (i - 1)

\* the last thing client c did was to read, as the response to a tools/call
\* request, a JSON object with an "error" member
ToolCallError(c) ==
    /\ c.wire # <<>>
    /\ c.wire[Len(c.wire)].method = "tools/call"
    /\ c.line.kind = "json"
    /\ c.line.msg.json = "object"
    /\ c.line.msg.error # "absent"

\* call_tool has raised MCPError with the message of the server
CallErrorRaised ==
    (pc = "finally" /\ ToolCallError(client))
    => exc = [type |-> "MCPError", msg |-> "MCP error", code |-> 0,
              detail |-> client.line.msg.errmsg]

\* the call that ends after such a response ends with a failure
CallErrorFails ==
    (Done /\ provider = "zai" /\ ToolCallError(client))
    => (pc = "raised" /\ raised.type = "VisionError")

\* no attempt is started after such a response
NoAttemptAfterCallError ==
    (pc = "zai_loop" /\ ToolCallError(client))
    => (pc' # "connect" /\ procs' = procs)

(***************************************************************************)
(* C32.  A tools/call response with an `error` member is an unrecoverable  *)
(* error that carries the server's message: call_tool raises MCPError with *)
(* that message, and the zai strategy ends with a failure for that         *)
(* response: it starts no further attempt and spawns no new subprocess.    *)
(***************************************************************************)
C32_CallErrorIsFinal ==
    [](CallErrorRaised /\ CallErrorFails) /\ [][NoAttemptAfterCallError]_vars

\* a call with no attempt allowed, of a known provider with a model it
\* accepts and a credential
ZeroRetries ==
    /\ max_retries <= 0
    /\ provider \in {"google", "openrouter", "zai"}
    /\ provider = "google" => model \in GOOGLE_MODELS
    /\ key \notin {"<unset>", ""}

(***************************************************************************)
(* C34, amended.  With max_retries <= 0 and a valid provider, model and    *)
(* credential every provider raises VisionError and never returns a text,  *)
(* with no HTTP POST, no MCP server spawned, no temp file created and no   *)
(* wait; the zai provider has by then run its Node.js version check.       *)
(***************************************************************************)
C34_NoAttempt ==
    ZeroRetries
    => /\ pc # "returned"
       /\ result = <<>>
       /\ resps = <<>>
       /\ Count("post") = 0
       /\ procs = <<>>
       /\ Count("spawn") = 0
       /\ files = <<>>
       /\ Count("sleep") = 0
       /\ attempt = 0
       /\ pc = "raised" => raised.type = "VisionError"

(***************************************************************************)
(* C34.  With max_retries <= 0 and a valid provider, model and credential  *)
(* every provider raises VisionError with no HTTP POST, no subprocess of   *)
(* any kind, no temp file and no wait, and never returns a text.           *)
(***************************************************************************)
C34_NoSubprocessOfAnyKind ==
    ZeroRetries
    => /\ C34_NoAttempt
       /\ \A j \in 1 .. Len(log) : ~(log[j].ev = "node" /\ log[j].n = 1)

C34_Witness ==
    /\ ZeroRetries
    /\ provider = "zai"
    /\ pc = "raised"
    /\ raised = VisionError("Z.AI failed after retries")
    /\ Len(log) = 2

\* main went on after its test of has_api_key
PassedPrecheck ==
    pc \in {"main_capture", "main_notify_processing", "main_describe", "main_copy",
            "main_notify_success", "main_except"}
    \/ Tried("capture_region")

(***************************************************************************)
(* C33.  The credential pre-check of main agrees with the credential       *)
(* lookup of the provider: for every provider, every value of the          *)
(* variable in the shell environment and every content of the three .env   *)
(* search paths, when has_api_key(provider) is true the lookup finds a key *)
(* and the missing-key VisionError is not raised.                          *)
(***************************************************************************)
C33_PrecheckAgrees ==
    (PassedPrecheck /\ provider \in {"google", "openrouter", "zai"})
    => /\ key \notin {"<unset>", ""}
       /\ exc.msg \notin {"GEMINI_API_KEY not found", "OPENROUTER_API_KEY not found",
                          "Z_AI_API_KEY not found"}

====
